---------------------------- MODULE Spec2Model ----------------------------
(***************************************************************************)
(* Verification model of the hotel room extractor:                         *)
(*   src/scraper.py  HotelRoomExtractor (the five-stage pipeline and the   *)
(*                   batch coordinator)                                    *)
(*   src/app.py      the Flask job-control surface and its worker thread   *)
(*                                                                         *)
(* Texts are modelled by what the code reads of them.  A text whose length *)
(* and words matter is a record [id, runs]: the identity of its letters    *)
(* and its runs of characters, n > 0 for a word of n characters and -n for *)
(* a run of n whitespace characters.  A text that is searched for keywords *)
(* or patterns is the sequence (or set) of its vocabulary tokens.  The     *)
(* browser is the environment: every page carries what its queries return  *)
(* and which of its operations raise.                                      *)
(***************************************************************************)
EXTENDS Integers, Sequences, FiniteSets, TLC

VARIABLES
    \* ---- capture_room_images (one call) ----
    im_pc,          \* "start" | "loop" | "done"
    im_page,        \* the page the call is made on
    im_idx,         \* index of the next element of img_elements
    im_st,          \* the loop state: images, captured, captured_types
    im_assigns,     \* history: how often each slot was assigned
    im_examined,    \* history: elements examined while all four slots were filled
    im_result,      \* the returned ImageSet (meaningful once im_pc = "done")
    \* ---- extract_room_details (one call) ----
    dt_pc,          \* "start" | "done"
    dt_page,        \* the page the call is made on
    dt_name,        \* room_name
    dt_raised,      \* history: a statement inside the try raised
    dt_result,      \* the returned details (meaningful once dt_pc = "done")
    \* ---- find_room_cards_on_page (one call) ----
    cd_pc,          \* "start" | "done"
    cd_page,        \* the page the call is made on
    cd_result,      \* the returned candidates (meaningful once cd_pc = "done")
    \* ---- process_hotels (one call) ----
    ph_pc,          \* "init" | "loop" | "hotel" | "finally" | "returned" | "raised"
    hotels,         \* the list passed to process_hotels
    ph_idx,         \* idx of the loop, from 1
    all_rooms,      \* the rows accumulated so far
    eh,             \* the frame of the running call of extract_hotel
    browser,        \* "none" | "open" | "closed"
    ph_hard,        \* history: the positions of the hotels whose call left through its except
    ph_result,      \* the returned rows (meaningful once ph_pc = "returned")
    \* ---- app.py ----
    extraction_status,  \* the global status dictionary
    requests,           \* the POST /extract requests, by the position of their handlers
    threads,            \* the run_extraction threads, in the order of their start
    polled              \* what the GET /status requests have returned, in order

imVars == <<im_pc, im_page, im_idx, im_st, im_assigns, im_examined, im_result>>
dtVars == <<dt_pc, dt_page, dt_name, dt_raised, dt_result>>
cdVars == <<cd_pc, cd_page, cd_result>>
phVars == <<ph_pc, hotels, ph_idx, all_rooms, eh, browser, ph_hard, ph_result>>

appVars == <<extraction_status, requests, threads>>

vars == <<imVars, dtVars, cdVars, phVars, appVars, polled>>

None == "None"

----------------------------------------------------------------------------
(* Bounds of the model *)

MaxImgs == 5
MaxParas == 6
MaxCards == 21
MaxHotels == 2
MaxRequests == 2
MaxPolls == 1

----------------------------------------------------------------------------
(* Texts *)

\* str.lower() on the vocabulary
Lower(tok) ==
    CASE tok = "Bath"  -> "bath"
      [] tok = "VIEW"  -> "view"
      [] tok = "View"  -> "view"
      [] tok = "Ocean" -> "ocean"
      [] tok = "Queen" -> "queen"
      [] tok = "Suite" -> "suite"
      [] OTHER         -> tok

\* `kw in s` for a keyword and one token of s
TokContains(tok, kw) ==
    \/ tok = kw
    \/ kw = "bath" /\ tok = "bathroom"
    \/ kw = "view" /\ tok \in {"seaview", "preview"}
    \/ kw = "room" /\ tok \in {"rooms", "bathroom"}
    \/ kw = "suite" /\ tok = "suites"

\* `kw in text` where text is a set of tokens
InText(kw, toks) == \E tok \in toks : TokContains(tok, kw)

LowerAll(toks) == {Lower(tok) : tok \in toks}

Min(a, b) == IF a < b THEN a ELSE b

Abs(n) == IF n < 0 THEN -n ELSE n

Text(id, runs) == [id |-> id, runs |-> runs]

\* len(text)
RECURSIVE CharLen(_)
CharLen(runs) == IF runs = <<>> THEN 0 ELSE Abs(Head(runs)) + CharLen(Tail(runs))

RECURSIVE StripLeft(_)
StripLeft(runs) ==
    IF runs # <<>> /\ Head(runs) < 0 THEN StripLeft(Tail(runs)) ELSE runs

RECURSIVE StripRight(_)
StripRight(runs) ==
    IF runs # <<>> /\ runs[Len(runs)] < 0
    THEN StripRight(SubSeq(runs, 1, Len(runs) - 1)) ELSE runs

\* str.strip()
Strip(t) == [t EXCEPT !.runs = StripRight(StripLeft(@))]

\* str.split(): the lengths of the words
IsWord(n) == n > 0
Split(runs) == SelectSeq(runs, IsWord)

\* ' '.join(words)
RECURSIVE Join(_)
Join(words) ==
    IF Len(words) <= 1 THEN words
    ELSE <<Head(words), -1>> \o Join(Tail(words))

\* s[:n] on the characters
RECURSIVE TruncChars(_, _)
TruncChars(runs, n) ==
    IF runs = <<>> \/ n <= 0 THEN <<>>
    ELSE IF Abs(Head(runs)) >= n
    THEN <<IF Head(runs) < 0 THEN -n ELSE n>>
    ELSE <<Head(runs)>> \o TruncChars(Tail(runs), n - Abs(Head(runs)))

\* The sequences over S of length at most n
RECURSIVE SeqsUpTo(_, _)
SeqsUpTo(S, n) ==
    IF n = 0 THEN {<<>>}
    ELSE LET shorter == SeqsUpTo(S, n - 1)
         IN  shorter \cup {Append(s, x) : s \in {t \in shorter : Len(t) = n - 1}, x \in S}

\* words[:n]
FirstN(seq, n) == SubSeq(seq, 1, Min(n, Len(seq)))

\* normalize_room_name: lower-cased, accents folded, the characters
\* /\:*?"<>| removed, whitespace runs turned into single hyphens, hyphens at
\* the ends stripped: one word of the same letters
NormalizeRoomName(name) ==
    LET words == Split(name.runs)
    IN  [id   |-> name.id,
         runs |-> IF words = <<>> THEN <<>> ELSE <<CharLen(Join(words))>>,
         form |-> "normalized"]

----------------------------------------------------------------------------
(* capture_room_images *)

Slots == {"room1", "room2", "bathroom", "view"}

\* Slot values are records: a sentinel [sentinel |-> s] or a saved filename.
NOT_AVAILABLE == [sentinel |-> "NOT AVAILABLE"]
SCREENSHOT_FAILED == [sentinel |-> "SCREENSHOT FAILED"]

MaxCaptured == 4
MinWidth == 200
MinHeight == 150

ImagesInit == [s \in Slots |-> NOT_AVAILABLE]
ImagesFailed == [s \in Slots |-> SCREENSHOT_FAILED]

\* An <img> element: what its attribute reads return and which of its
\* operations raise.  An attribute is the set of vocabulary tokens in its
\* value; {} is the absent (None) or empty attribute, which the code's
\* `or ''` treats alike.
Img(src, dataSrc, alt, cls, box, scrollFails, shotFails) ==
    [src |-> src, dataSrc |-> dataSrc, alt |-> alt, cls |-> cls, box |-> box,
     scrollFails |-> scrollFails, shotFails |-> shotFails]

Box(w, h) == [present |-> TRUE, width |-> w, height |-> h]
\* bounding_box() returning None (the element is not visible)
NoBox == [present |-> FALSE, width |-> 0, height |-> 0]

\* f"{img_src} {img_alt} {img_class}".lower()
CombinedText(elem) ==
    LET img_src == IF elem.src # {} THEN elem.src
                   ELSE IF elem.dataSrc # {} THEN elem.dataSrc
                   ELSE {}
        img_alt == IF elem.alt # {} THEN elem.alt ELSE {}
        img_cls == IF elem.cls # {} THEN elem.cls ELSE {}
    IN  LowerAll(img_src \cup img_alt \cup img_cls)

\* The mutant of ImgType: the room1 branch forgets the captured_types test.
ImgTypeNoDedup(combined_text, captured_types) ==
    IF InText("bathroom", combined_text) \/ InText("bath", combined_text)
    THEN IF "bathroom" \notin captured_types THEN "bathroom" ELSE None
    ELSE IF InText("view", combined_text) \/ InText("vista", combined_text)
    THEN IF "view" \notin captured_types THEN "view" ELSE None
    ELSE "room1"

\* "Determine image type"
ImgType(combined_text, captured_types) ==
    IF InText("bathroom", combined_text) \/ InText("bath", combined_text)
    THEN IF "bathroom" \notin captured_types THEN "bathroom" ELSE None
    ELSE IF InText("view", combined_text) \/ InText("vista", combined_text)
    THEN IF "view" \notin captured_types THEN "view" ELSE None
    ELSE IF "room1" \notin captured_types THEN "room1"
    ELSE IF "room2" \notin captured_types THEN "room2"
    ELSE None

Filename(hotel_id, normalized_name, img_type) ==
    [hotel |-> hotel_id, room |-> normalized_name, slot |-> img_type]

LoopInit == [images |-> ImagesInit, captured |-> 0, captured_types |-> {}]

\* The slot one iteration of the loop assigns for elem, or None: the body of
\* the inner try, whose exceptions are swallowed by `continue`.
IterSlot(st, elem) ==
    IF elem.scrollFails THEN None
    ELSE IF ~elem.box.present \/ elem.box.width < MinWidth \/ elem.box.height < MinHeight
    THEN None
    ELSE LET img_type == ImgType(CombinedText(elem), st.captured_types)
         IN  IF img_type = None THEN None
             ELSE IF elem.shotFails THEN None
             ELSE img_type

\* The mutant of CaptureIter: a failed screenshot writes the failure sentinel
\* into its slot instead of leaving the slot alone.
CaptureIterMarksFailed(st, elem, hotel_id, normalized_name) ==
    LET img_type == IterSlot(st, elem)
        tried == IF elem.scrollFails \/ ~elem.box.present THEN None
                 ELSE ImgType(CombinedText(elem), st.captured_types)
    IN  IF img_type # None
        THEN [images         |-> [st.images EXCEPT
                                    ![img_type] = Filename(hotel_id, normalized_name, img_type)],
              captured       |-> st.captured + 1,
              captured_types |-> st.captured_types \cup {img_type}]
        ELSE IF tried # None /\ elem.shotFails
        THEN [st EXCEPT !.images[tried] = SCREENSHOT_FAILED]
        ELSE st

\* The mutant of CaptureIter: the type is added to captured_types before the
\* screenshot, so a failed screenshot uses the type up.
CaptureIterAddsTypeFirst(st, elem, hotel_id, normalized_name) ==
    LET img_type == IterSlot(st, elem)
        tried == IF elem.scrollFails \/ ~elem.box.present THEN None
                 ELSE IF elem.box.width < MinWidth \/ elem.box.height < MinHeight THEN None
                 ELSE ImgType(CombinedText(elem), st.captured_types)
    IN  IF img_type # None
        THEN [images         |-> [st.images EXCEPT
                                    ![img_type] = Filename(hotel_id, normalized_name, img_type)],
              captured       |-> st.captured + 1,
              captured_types |-> st.captured_types \cup {img_type}]
        ELSE IF tried # None
        THEN [st EXCEPT !.captured_types = @ \cup {tried}]
        ELSE st

\* One iteration of the loop body on elem.
CaptureIter(st, elem, hotel_id, normalized_name) ==
    LET img_type == IterSlot(st, elem)
    IN  IF img_type = None THEN st
        ELSE [images         |-> [st.images EXCEPT
                                    ![img_type] = Filename(hotel_id, normalized_name, img_type)],
              captured       |-> st.captured + 1,
              captured_types |-> st.captured_types \cup {img_type}]

\* `if captured >= 4: break`
LoopBreaks(st) == st.captured >= MaxCaptured

RECURSIVE CaptureLoop(_, _, _, _)
CaptureLoop(st, elems, hotel_id, normalized_name) ==
    IF elems = <<>> \/ LoopBreaks(st) THEN st
    ELSE CaptureLoop(CaptureIter(st, Head(elems), hotel_id, normalized_name),
                     Tail(elems), hotel_id, normalized_name)

\* The outer except: images is rebound to the all-failed set.
StageFailure(images) == ImagesFailed

\* Whether the statements before the loop raise: os.makedirs, or
\* page.query_selector_all('img[src], img[data-src]')
SetupRaises(page) == page.mkdirFails \/ page.imgQueryFails

\* capture_room_images as a function of the page
CaptureRoomImages(page, hotel_id, room_name) ==
    IF SetupRaises(page) THEN StageFailure(ImagesInit)
    ELSE CaptureLoop(LoopInit, page.imgs, hotel_id, NormalizeRoomName(room_name)).images

----------------------------------------------------------------------------
(* find_room_cards_on_page *)

MaxRooms == 20
MinNameLen == 3
MaxNameLen == 100

\* card_selectors, by position
CardSelectors ==
    << "[class*=room]", "[class*=accommodation]", "[class*=suite]", "[data-room]",
       "article", ".card", "[class*=habitacion]" >>

\* The absent url of a candidate (None)
NoUrl == "None"

\* An element a card selector matches: pos is its place in the document;
\* hasTitle: its heading-like child exists; title: that child's inner text;
\* href: its first anchor's href (NoUrl: no anchor, or no href);
\* fails: a query or read on the element raises.
CardElem(pos, hasTitle, title, href, fails) ==
    [pos |-> pos, hasTitle |-> hasTitle, title |-> title, href |-> href, fails |-> fails]

\* A heading (h2, h3, h4): its inner text, the vocabulary tokens of the text,
\* and whether inner_text() raises.
Heading(pos, text, toks, fails) ==
    [pos |-> pos, text |-> text, toks |-> toks, fails |-> fails]

Candidate(name, url, element) == [name |-> name, url |-> url, element |-> element]

\* `len(room_name) > 3 and len(room_name) < 100`
NameAccepted(room_name) ==
    CharLen(room_name.runs) > MinNameLen /\ CharLen(room_name.runs) < MaxNameLen

\* The candidates of the elements one selector matched, in document order; an
\* element that raises, has no title or a rejected name contributes nothing.
RECURSIVE CardsOf(_)
CardsOf(elems) ==
    IF elems = <<>> THEN <<>>
    ELSE LET elem == Head(elems)
             room_name == Strip(elem.title)
         IN  (IF ~elem.fails /\ elem.hasTitle /\ NameAccepted(room_name)
              THEN <<Candidate(room_name, elem.href, elem.pos)>> ELSE <<>>)
             \o CardsOf(Tail(elems))

\* Strategy 1 from selector k on: the candidates of the first selector that
\* yields any; raised when a query_selector_all raised on the way.
RECURSIVE ScanSelectors(_, _)
ScanSelectors(page, k) ==
    IF k > Len(CardSelectors) THEN [cards |-> <<>>, raised |-> FALSE]
    ELSE IF page.cardQueryFails = k THEN [cards |-> <<>>, raised |-> TRUE]
    ELSE LET found == CardsOf(page.cards[k])
         IN  IF found # <<>> THEN [cards |-> found, raised |-> FALSE]
             ELSE ScanSelectors(page, k + 1)

HeadingKeywords == {"room", "suite", "habitacion"}

\* Strategy 2: the headings whose text holds a room keyword and is longer than
\* 3 characters
RECURSIVE HeadingCards(_)
HeadingCards(headings) ==
    IF headings = <<>> THEN <<>>
    ELSE LET h == Head(headings)
             text == Strip(h.text)
         IN  (IF /\ ~h.fails
                 /\ \E keyword \in HeadingKeywords : InText(keyword, LowerAll(h.toks))
                 /\ CharLen(text.runs) > MinNameLen
              THEN <<Candidate(text, NoUrl, h.pos)>> ELSE <<>>)
             \o HeadingCards(Tail(headings))

\* room_cards as it stands at the return statement
RoomCardsFound(page) ==
    IF page.scrollFails THEN <<>>
    ELSE LET structural == ScanSelectors(page, 1)
         IN  IF structural.raised THEN <<>>
             ELSE IF structural.cards # <<>> THEN structural.cards
             ELSE IF page.headingQueryFails THEN <<>>
             ELSE HeadingCards(page.headings)

\* The mutant of FindRoomCards: the list is returned uncut.
FindRoomCardsUncut(page) == RoomCardsFound(page)

\* find_room_cards_on_page: `return room_cards[:20]`
FindRoomCards(page) == FirstN(RoomCardsFound(page), MaxRooms)

----------------------------------------------------------------------------
(* extract_room_details *)

\* The sentinel of an attribute no pattern found; extracted values are
\* sequences of content tokens, and so is the sentinel.
NOT_FOUND == <<"NOT FOUND">>

MaxParagraphs == 5
MinParagraphChars == 50
MaxDescriptionWords == 30
MaxFillerChars == 200

\* Page content is a sequence of tokens: numbers, whitespace runs and words.
IsNum(tok) == tok \in {"1", "2", "28", "35", "40"}
IsWs(tok) == tok \in {" ", "  ", "\n"}

\* A literal of a pattern against a token, case ignored; a regular expression
\* has no word boundary, so "bed" also matches the start of "beds".
LitMatches(lit, tok) ==
    \/ Lower(tok) = lit
    \/ lit = "bed" /\ Lower(tok) = "beds"

\* Pattern items
Num == [k |-> "num"]
Ws0 == [k |-> "ws*"]
Ws1 == [k |-> "ws+"]
Lit(lits) == [k |-> "lit", lits |-> lits]
Opt(p) == [k |-> "opt", p |-> p]

RECURSIVE SkipWs(_, _)
SkipWs(c, i) == IF i <= Len(c) /\ IsWs(c[i]) THEN SkipWs(c, i + 1) ELSE i

\* Where a match of pat that starts at token i of c ends (the index after its
\* last token), or 0 when pat does not match there.
RECURSIVE MatchFrom(_, _, _)
MatchFrom(pat, c, i) ==
    IF pat = <<>> THEN i
    ELSE LET it == Head(pat)
             rest == Tail(pat)
         IN  CASE it.k = "num" ->
                    IF i <= Len(c) /\ IsNum(c[i]) THEN MatchFrom(rest, c, i + 1) ELSE 0
               [] it.k = "lit" ->
                    IF i <= Len(c) /\ \E lit \in it.lits : LitMatches(lit, c[i])
                    THEN MatchFrom(rest, c, i + 1) ELSE 0
               [] it.k = "ws*" -> MatchFrom(rest, c, SkipWs(c, i))
               [] it.k = "ws+" ->
                    IF i <= Len(c) /\ IsWs(c[i]) THEN MatchFrom(rest, c, SkipWs(c, i)) ELSE 0
               [] it.k = "opt" ->
                    LET with == MatchFrom(it.p \o rest, c, i)
                    IN  IF with # 0 THEN with ELSE MatchFrom(rest, c, i)

\* re.search(pattern, content, re.IGNORECASE): the leftmost match as
\* [from, to], or [from |-> 0] when there is none
Search(pat, c) ==
    LET starts == {i \in 1..Len(c) : MatchFrom(pat, c, i) # 0}
    IN  IF starts = {} THEN [from |-> 0, to |-> 0]
        ELSE LET i == CHOOSE a \in starts : \A b \in starts : a <= b
             IN  [from |-> i, to |-> MatchFrom(pat, c, i) - 1]

\* The matched text: the tokens of the match; when the last literal of the
\* pattern matched only the start of the last token ("bed" in "beds"), that
\* token is cut to the literal.
Matched(pat, c, m) ==
    LET toks == SubSeq(c, m.from, m.to)
        item == pat[Len(pat)]
        last == toks[Len(toks)]
    IN  IF item.k = "lit" /\ \A lit \in item.lits : Lower(last) # lit
        THEN [toks EXCEPT ![Len(toks)] = "bed"]
        ELSE toks

\* area_patterns
AreaPatterns ==
    << <<Num, Ws0, Lit({"mÂ²"})>>,
       <<Num, Ws0, Lit({"m2"})>>,
       <<Num, Ws0, Lit({"sqm"})>>,
       <<Num, Ws0, Lit({"square"}), Ws0, Lit({"meters"})>> >>

\* bed_patterns
BedPatterns ==
    << <<Num, Ws1, Lit({"king", "queen", "double", "twin", "single"}), Ws1, Lit({"bed"})>>,
       <<Lit({"king"}), Ws1, Opt(<<Lit({"size"}), Ws1>>), Lit({"bed"})>>,
       <<Lit({"queen"}), Ws1, Opt(<<Lit({"size"}), Ws1>>), Lit({"bed"})>>,
       <<Lit({"twin"}), Ws1, Lit({"beds"})>>,
       <<Lit({"double"}), Ws1, Lit({"bed"})>>,
       <<Lit({"cama"}), Ws1, Lit({"king", "queen", "doble", "individual"})>> >>

\* view_keywords
ViewKeywords ==
    << <<"sea", " ", "view">>, <<"ocean", " ", "view">>, <<"city", " ", "view">>,
       <<"garden", " ", "view">>, <<"mountain", " ", "view">>, <<"pool", " ", "view">>,
       <<"vista", " ", "mar">>, <<"vista", " ", "ciudad">> >>

\* The first pattern of pats that matches c, as an index, or 0
RECURSIVE FirstMatching(_, _, _)
FirstMatching(pats, c, k) ==
    IF k > Len(pats) THEN 0
    ELSE IF Search(pats[k], c).from # 0 THEN k
    ELSE FirstMatching(pats, c, k + 1)

\* "Extract area": match.group(1) is the number
ExtractArea(content) ==
    LET k == FirstMatching(AreaPatterns, content, 1)
    IN  IF k = 0 THEN NOT_FOUND
        ELSE <<content[Search(AreaPatterns[k], content).from]>>

\* "Extract bed type": match.group(1) is the whole match
ExtractBed(content) ==
    LET k == FirstMatching(BedPatterns, content, 1)
    IN  IF k = 0 THEN NOT_FOUND
        ELSE Matched(BedPatterns[k], content, Search(BedPatterns[k], content))

LowerSeq(c) == [i \in 1..Len(c) |-> Lower(c[i])]

\* `keyword in content.lower()`
KeywordIn(keyword, c) ==
    \E i \in 1..Len(c) :
        /\ i + Len(keyword) - 1 <= Len(c)
        /\ SubSeq(LowerSeq(c), i, i + Len(keyword) - 1) = keyword

\* str.title() on the vocabulary of the view keywords
Title(tok) ==
    CASE tok = "sea" -> "Sea"
      [] tok = "ocean" -> "Ocean"
      [] tok = "city" -> "City"
      [] tok = "garden" -> "Garden"
      [] tok = "mountain" -> "Mountain"
      [] tok = "pool" -> "Pool"
      [] tok = "view" -> "View"
      [] tok = "vista" -> "Vista"
      [] tok = "mar" -> "Mar"
      [] tok = "ciudad" -> "Ciudad"
      [] OTHER -> tok

RECURSIVE FirstKeyword(_, _)
FirstKeyword(c, k) ==
    IF k > Len(ViewKeywords) THEN 0
    ELSE IF KeywordIn(ViewKeywords[k], c) THEN k
    ELSE FirstKeyword(c, k + 1)

\* "Extract views"
ExtractViews(content) ==
    LET k == FirstKeyword(content, 1)
    IN  IF k = 0 THEN NOT_FOUND
        ELSE [i \in 1..Len(ViewKeywords[k]) |-> Title(ViewKeywords[k][i])]

\* A <p> element: whether inner_text() raises, and its text
Para(fails, text) == [fails |-> fails, text |-> text]

\* The empty description
EmptyText == Text("", <<>>)

\* The loop over paragraphs[:5]: the first text longer than 50 characters, or
\* '' when there is none; a paragraph whose inner_text() raises is skipped.
RECURSIVE FirstMeaningful(_)
FirstMeaningful(paras) ==
    IF paras = <<>> THEN EmptyText
    ELSE IF ~Head(paras).fails /\ CharLen(Head(paras).text.runs) > MinParagraphChars
    THEN Head(paras).text
    ELSE FirstMeaningful(Tail(paras))

\* ' '.join(text.split()[:30])
Describe(text) ==
    [text EXCEPT !.runs = Join(FirstN(Split(text.runs), MaxDescriptionWords))]

\* The filler sentence around room_name, [:200]
FillerPrefix == <<14, -1, 2, -1, 4, -1, 5, -1, 7, -1, 3, -1>>
FillerSuffix == <<-1, 4, -1, 4, -1, 4, -1, 7, -1, 9, -1, 3, -1, 8, -1, 3, -1, 5, -1, 7,
                  -1, 3, -1, 11, -1, 6, -1, 5, -1, 4, -1, 2, -1, 3, -1, 9>>
Filler(room_name) ==
    [id   |-> "Accommodations at this hotel include the ...",
     name |-> room_name.id,
     runs |-> TruncChars(FillerPrefix \o room_name.runs \o FillerSuffix, MaxFillerChars)]

\* "Generate 30-word description", given the paragraphs the query returned
Description(paragraphs, room_name) ==
    LET desc_text == FirstMeaningful(FirstN(paragraphs, MaxParagraphs))
        described == IF desc_text.runs # <<>> THEN Describe(desc_text) ELSE EmptyText
    IN  IF described.runs # <<>> THEN described
        ELSE Describe(Filler(room_name))

\* The mutant of DetailsInit: the user agent of the page's context is
\* recorded among the sources.
DetailsInitWithAgent(page, room_name) ==
    [room_name            |-> room_name,
     room_area_m2         |-> NOT_FOUND,
     bed_type             |-> NOT_FOUND,
     views                |-> NOT_FOUND,
     room_description_30w |-> EmptyText,
     link_main            |-> page.url,
     sources              |-> <<page.url, page.user_agent>>]

DetailsInit(page, room_name) ==
    [room_name            |-> room_name,
     room_area_m2         |-> NOT_FOUND,
     bed_type             |-> NOT_FOUND,
     views                |-> NOT_FOUND,
     room_description_30w |-> EmptyText,
     link_main            |-> page.url,
     sources              |-> <<page.url>>]

\* Whether a statement inside the try of extract_room_details raises:
\* page.content() or page.query_selector_all('p')
DetailsRaises(page) == page.contentFails \/ page.paraQueryFails

\* extract_room_details as a function of the page: the except of the function
\* returns details as far as they were filled in.
ExtractRoomDetails(page, room_name) ==
    LET d0 == DetailsInit(page, room_name)
        d1 == [d0 EXCEPT !.room_area_m2 = ExtractArea(page.content),
                         !.bed_type     = ExtractBed(page.content),
                         !.views        = ExtractViews(page.content)]
    IN  IF page.contentFails THEN d0
        ELSE IF page.paraQueryFails THEN d1
        ELSE [d1 EXCEPT !.room_description_30w = Description(page.paragraphs, room_name)]

----------------------------------------------------------------------------
(* One call of extract_room_details *)

SampleHotelId == "H1"
SampleRoomName == Text("Deluxe King", <<6, -1, 4>>)

LongRoomName ==
    Text("Two Bedroom Family Suite With Sea View ...",
         <<3, -1, 3, -1, 3, -1, 3, -1, 3, -1, 3, -1, 3, -1, 3, -1, 3, -1, 3, -1,
           3, -1, 3, -1, 3, -1, 3, -1, 3, -1, 3, -1, 3, -1, 3, -1, 3, -1, 3, -1,
           3, -1, 3, -1, 3, -1, 3, -1, 3>>)

\* n words of w characters each
RECURSIVE WordsOf(_, _)
WordsOf(n, w) == IF n = 0 THEN <<>> ELSE IF n = 1 THEN <<w>> ELSE <<w, -1>> \o WordsOf(n - 1, w)

ParaKinds ==
    { Para(FALSE, Text("thirty-five words", WordsOf(35, 4))),      \* 174 characters
      Para(FALSE, Text("two long words", <<-1, 25, -1, 25, -1>>)), \* 53 characters
      Para(FALSE, Text("fifty characters", WordsOf(10, 4) \o <<-1>>)), \* exactly 50
      Para(FALSE, Text("blank", <<-60>>)),                         \* whitespace only
      Para(TRUE,  Text("detached", WordsOf(40, 4))) }              \* inner_text() raises

ContentSamples ==
    { <<>>,
      <<"35", " ", "m²", " ", "king", " ", "bed", " ", "sea", " ", "view">>,
      <<"40", "mÂ²", "\n", "2", " ", "Queen", " ", "beds", " ", "Ocean", " ", "View">>,
      <<"28", "  ", "square", " ", "meters", " ", "cama", " ", "doble", " ", "vista", " ", "mar">>,
      <<"suite", " ", "35", "m2", " ", "king", " ", "size", " ", "bed">>,
      <<"twin", " ", "beds", " ", "40", " ", "sqm", " ", "pool", "  ", "view">> }

SampleUrl == "https://hotel.example/rooms"

\* config.USER_AGENTS, by their platform
USER_AGENTS == <<"Mozilla/5.0 (Windows NT 10.0; Win64; x64) ...",
                 "Mozilla/5.0 (Macintosh; Intel Mac OS X 10_15_7) ...">>

\* The page belongs to a context made by create_page with the user agent ua
WithAgent(page, ua) == [page EXCEPT !.user_agent = ua]

DetailPage(content, paragraphs, contentFails, paraQueryFails) ==
    [url |-> SampleUrl, content |-> content, paragraphs |-> paragraphs,
     contentFails |-> contentFails, paraQueryFails |-> paraQueryFails,
     user_agent |-> USER_AGENTS[1]]

ReadFailures == {<<FALSE, FALSE>>, <<TRUE, FALSE>>, <<FALSE, TRUE>>}

DetPages ==
    { DetailPage(<<>>, paras, FALSE, FALSE) : paras \in SeqsUpTo(ParaKinds, MaxParas) }
    \cup
    { DetailPage(c, paras, f[1], f[2]) :
        c \in ContentSamples, paras \in SeqsUpTo(ParaKinds, 1), f \in ReadFailures }
    \cup
    { WithAgent(DetailPage(c, paras, f[1], f[2]), USER_AGENTS[2]) :
        c \in ContentSamples, paras \in SeqsUpTo(ParaKinds, 1), f \in ReadFailures }

DtInit ==
    /\ dt_pc = "start"
    /\ dt_page \in DetPages
    /\ dt_name \in {SampleRoomName, LongRoomName}
    /\ dt_raised = FALSE
    /\ dt_result = DetailsInit(dt_page, dt_name)

DtIdle ==
    /\ dt_pc = "idle"
    /\ dt_page = DetailPage(<<>>, <<>>, FALSE, FALSE)
    /\ dt_name = SampleRoomName
    /\ dt_raised = FALSE
    /\ dt_result = DetailsInit(dt_page, dt_name)

otherThanDt == <<imVars, cdVars, phVars, appVars, polled>>

\* Every statement of the try succeeds and details is returned.
DtReturn ==
    /\ dt_pc = "start"
    /\ ~DetailsRaises(dt_page)
    /\ dt_result' = ExtractRoomDetails(dt_page, dt_name)
    /\ dt_pc' = "done"
    /\ UNCHANGED <<dt_page, dt_name, dt_raised>>
    /\ UNCHANGED otherThanDt

\* page.content() or the paragraph query raises: the except prints the error
\* and details is returned as it stands.
DtRaises ==
    /\ dt_pc = "start"
    /\ DetailsRaises(dt_page)
    /\ dt_result' = ExtractRoomDetails(dt_page, dt_name)
    /\ dt_raised' = TRUE
    /\ dt_pc' = "done"
    /\ UNCHANGED <<dt_page, dt_name>>
    /\ UNCHANGED otherThanDt

NextDetails == DtReturn \/ DtRaises

DescriptionWords(details) == Len(Split(details.room_description_30w.runs))

\* C7: the description returned by extract_room_details is non-empty and has
\* at most 30 whitespace-separated words on every path, a failed page read
\* included.
C7_DescriptionNeverEmpty ==
    dt_pc = "done" =>
        /\ dt_result.room_description_30w.runs # <<>>
        /\ DescriptionWords(dt_result) >= 1
        /\ DescriptionWords(dt_result) <= MaxDescriptionWords

\* What the code does keep: the description is non-empty and at most 30 words
\* whenever no statement of the try raised.
DescriptionBoundedUnlessRaised ==
    (dt_pc = "done" /\ ~dt_raised) =>
        /\ DescriptionWords(dt_result) >= 1
        /\ DescriptionWords(dt_result) <= MaxDescriptionWords

HasSubstring(c, sub) ==
    \E i \in 1..Len(c) :
        /\ i + Len(sub) - 1 <= Len(c)
        /\ SubSeq(c, i, i + Len(sub) - 1) = sub

\* The page was read, and its content holds "35 m²" and "king bed"
ScenarioC ==
    /\ dt_pc = "done"
    /\ ~dt_page.contentFails
    /\ HasSubstring(dt_page.content, <<"35", " ", "m²">>)
    /\ HasSubstring(dt_page.content, <<"king", " ", "bed">>)

\* C11: for page content that holds "35 m²" and "king bed",
\* extract_room_details returns room_area_m2 "35" and the king-bed match as
\* bed_type.
C11_AreaAndKingBed ==
    ScenarioC =>
        /\ dt_result.room_area_m2 = <<"35">>
        /\ dt_result.bed_type # NOT_FOUND
        /\ dt_result.bed_type = <<"king", " ", "bed">>

----------------------------------------------------------------------------
(* search_hotel_website *)

\* The vocabulary tokens of a URL, for the denylist test `x in url.lower()`
UrlTokens(url) ==
    CASE url = "https://www.grandhotel.example/"          -> {"grandhotel."}
      [] url = "https://www.Booking.com/hotel/grand"      -> {"Booking."}
      [] url = "https://www.tripadvisor.com/Hotel_Review" -> {"tripadvisor."}
      [] OTHER                                            -> {}

LowerUrlToken(tok) == IF tok = "Booking." THEN "booking." ELSE tok

Denylist == {"google.", "booking.", "tripadvisor.", "expedia."}

Denylisted(url) == \E x \in Denylist : x \in {LowerUrlToken(tok) : tok \in UrlTokens(url)}

\* An exception: its message as a text
Exc(id, chars) == [id |-> id, runs |-> <<chars>>]
NoExc == Exc("", 0)

TimeoutError == Exc("Timeout 30000ms exceeded. (call log ...)", 180)
NetError == Exc("net::ERR_NAME_NOT_RESOLVED", 26)
TargetClosed == Exc("Target page, context or browser has been closed", 47)

\* What the search page does: create: whether create_page() raises; load:
\* whether goto/wait_for_load_state raise; link: the href of the first result
\* link (NoUrl: no result link, or no href); close: whether page.close() raises.
SearchOracle(createFails, loadFails, link, closeFails) ==
    [createFails |-> createFails, loadFails |-> loadFails, link |-> link,
     closeFails |-> closeFails]

\* search_hotel_website: try/finally without an except, so that every error
\* of the page leaves the function; the finally closes the page, and an error
\* of the close replaces the outcome.
SearchHotelWebsite(o) ==
    IF o.createFails
    THEN [raised |-> TRUE, exc |-> TargetClosed, url |-> NoUrl, opened |-> 0, closed |-> 0]
    ELSE IF o.closeFails
    THEN [raised |-> TRUE, exc |-> TargetClosed, url |-> NoUrl, opened |-> 1, closed |-> 0]
    ELSE IF o.loadFails
    THEN [raised |-> TRUE, exc |-> NetError, url |-> NoUrl, opened |-> 1, closed |-> 1]
    ELSE [raised |-> FALSE, exc |-> NoExc,
          url |-> IF o.link \notin {NoUrl, ""} /\ ~Denylisted(o.link) THEN o.link ELSE NoUrl,
          opened |-> 1, closed |-> 1]

----------------------------------------------------------------------------
(* find_and_click_rooms_link *)

RoomKeywords == <<"rooms", "accommodations", "suites", "habitaciones", "alojamiento">>
SelectorsPerKeyword == 5

\* The attempts of the function in order: 25 click attempts (keyword by
\* selector), then 5 href attempts (one per keyword).
ClickAttempts == Len(RoomKeywords) * SelectorsPerKeyword
NavAttempts == ClickAttempts + Len(RoomKeywords)

\* What an attempt meets.  A click attempt: "raises" (the query or the click
\* raises before any effect), "none" (no element), "clicked" (click and wait
\* succeed), "clickedTimeout" (the click navigates, the wait raises).  An href
\* attempt: "raises", "none", "followed" (goto and wait succeed),
\* "followedTimeout" (goto navigates, the wait raises).
\* An oracle is the sequence of what the first attempts meet; attempts past its
\* end meet "none".
Meets(oracle, n) == IF n <= Len(oracle) THEN oracle[n] ELSE "none"

\* From attempt n on: clicked is the return value, moved whether a click or a
\* goto has navigated the page away from the entry page.
RECURSIVE NavFrom(_, _, _)
NavFrom(oracle, n, moved) ==
    IF n > NavAttempts THEN [clicked |-> FALSE, moved |-> moved]
    ELSE LET met == Meets(oracle, n)
         IN  IF n <= ClickAttempts
             THEN CASE met = "clicked"        -> [clicked |-> TRUE, moved |-> TRUE]
                    [] met = "clickedTimeout" -> NavFrom(oracle, n + 1, TRUE)
                    [] OTHER                  -> NavFrom(oracle, n + 1, moved)
             ELSE CASE met = "followed"        -> [clicked |-> TRUE, moved |-> TRUE]
                    [] met = "followedTimeout" -> NavFrom(oracle, n + 1, TRUE)
                    [] OTHER                   -> NavFrom(oracle, n + 1, moved)

\* find_and_click_rooms_link
FindAndClickRoomsLink(oracle) == NavFrom(oracle, 1, FALSE)

----------------------------------------------------------------------------
(* extract_hotel *)

Hotel(hotel_id, hotel_name, city, address) ==
    [hotel_id |-> hotel_id, hotel_name |-> hotel_name, city |-> city, address |-> address]

EXTRACTION_FAILED == [sentinel |-> "EXTRACTION FAILED"]

NotApplicable == Text("N/A", <<3>>)

ImageFolder(hotel_id) == [dir |-> "images", hotel |-> hotel_id]

MaxErrorChars == 50

\* fieldnames of save_to_csv, the columns csv.DictWriter writes
fieldnames ==
    << "hotel_id", "hotel_name", "city", "address", "room_name", "image_folder",
       "image_files", "room_area_m2", "bed_type", "views", "room_description_30w",
       "link_main", "link_secondary", "sources", "room_match_method", "confidence",
       "notes" >>

\* The mutant of ErrorRow: the attributes nothing was extracted for are left
\* out of the row instead of holding NOT FOUND.
ErrorRowWithoutAttributes(hotel, description, notes, link_main, is_failed) ==
    LET files_status == IF is_failed THEN EXTRACTION_FAILED ELSE NOT_AVAILABLE
    IN  [hotel_id             |-> hotel.hotel_id,
         hotel_name           |-> hotel.hotel_name,
         city                 |-> hotel.city,
         address              |-> hotel.address,
         room_name            |-> NotApplicable,
         image_folder         |-> ImageFolder(hotel.hotel_id),
         image_files          |-> <<files_status, files_status, files_status, files_status>>,
         room_description_30w |-> description,
         link_main            |-> link_main,
         link_secondary       |-> "",
         sources              |-> IF link_main # "" THEN <<link_main>> ELSE <<>>,
         room_match_method    |-> IF is_failed THEN "Failed" ELSE "No match",
         confidence           |-> "Low",
         notes                |-> notes]

\* _create_error_row; image_files, a string of four parts joined by " | ",
\* is the sequence of its parts, and sources the sequence of its links
ErrorRow(hotel, description, notes, link_main, is_failed) ==
    LET files_status == IF is_failed THEN EXTRACTION_FAILED ELSE NOT_AVAILABLE
    IN  [hotel_id             |-> hotel.hotel_id,
         hotel_name           |-> hotel.hotel_name,
         city                 |-> hotel.city,
         address              |-> hotel.address,
         room_name            |-> NotApplicable,
         image_folder         |-> ImageFolder(hotel.hotel_id),
         image_files          |-> <<files_status, files_status, files_status, files_status>>,
         room_area_m2         |-> NOT_FOUND,
         bed_type             |-> NOT_FOUND,
         views                |-> NOT_FOUND,
         room_description_30w |-> description,
         link_main            |-> link_main,
         link_secondary       |-> "",
         sources              |-> IF link_main # "" THEN <<link_main>> ELSE <<>>,
         room_match_method    |-> IF is_failed THEN "Failed" ELSE "No match",
         confidence           |-> "Low",
         notes                |-> notes]

\* room_data
RoomRow(hotel, room_name, images, details) ==
    [hotel_id             |-> hotel.hotel_id,
     hotel_name           |-> hotel.hotel_name,
     city                 |-> hotel.city,
     address              |-> hotel.address,
     room_name            |-> room_name,
     image_folder         |-> ImageFolder(hotel.hotel_id),
     image_files          |-> <<images["room1"], images["room2"],
                                images["bathroom"], images["view"]>>,
     room_area_m2         |-> details.room_area_m2,
     bed_type             |-> details.bed_type,
     views                |-> details.views,
     room_description_30w |-> details.room_description_30w,
     link_main            |-> details.link_main,
     link_secondary       |-> "",
     sources              |-> details.sources,
     room_match_method    |-> "Exact match",
     confidence           |-> "Medium",
     notes                |-> Text("Extracted from official website", <<9, -1, 4, -1, 8, -1, 7>>)]

WebsiteNotFoundRow(hotel) ==
    ErrorRow(hotel, Text("Hotel website not found.", <<5, -1, 7, -1, 3, -1, 6>>),
             Text("Official website not found", <<8, -1, 7, -1, 3, -1, 5>>), "", FALSE)

NoRoomsRow(hotel, website_url) ==
    ErrorRow(hotel, Text("No room types found on website.", <<2, -1, 4, -1, 5, -1, 5, -1, 2, -1, 8>>),
             Text("No rooms found", <<2, -1, 5, -1, 5>>), website_url, FALSE)

\* f'Extraction failed: {str(e)[:50]}' and f'Error: {str(e)}'
FailedRow(hotel, exc) ==
    ErrorRow(hotel,
             [id |-> "Extraction failed: ", msg |-> exc.id,
              runs |-> <<10, -1, 7, -1>> \o TruncChars(exc.runs, MaxErrorChars)],
             [id |-> "Error: ", msg |-> exc.id, runs |-> <<6, -1>> \o exc.runs],
             "", TRUE)

\* A page of a site with everything extract_hotel may ask of it
BlankPage ==
    [url |-> "about:blank",
     content |-> <<>>, paragraphs |-> <<>>, contentFails |-> FALSE, paraQueryFails |-> FALSE,
     imgs |-> <<>>, mkdirFails |-> FALSE, imgQueryFails |-> FALSE,
     cards |-> [k \in 1..Len(CardSelectors) |-> <<>>], headings |-> <<>>,
     scrollFails |-> FALSE, cardQueryFails |-> 0, headingQueryFails |-> FALSE]

BlankSite == [entry |-> BlankPage, rooms |-> BlankPage]

\* The frame of one call of extract_hotel.  calls, open, hard, so and search
\* are history: the stages invoked, the pages created and not yet closed,
\* whether the call left through its except, the search page's behaviour and
\* what search_hotel_website returned.
EhFrame(hotel) ==
    [stage       |-> "search",
     so          |-> SearchOracle(FALSE, FALSE, NoUrl, FALSE),
     search      |-> [raised |-> FALSE, exc |-> NoExc, url |-> NoUrl, opened |-> 0, closed |-> 0],
     website_url |-> NoUrl,
     site        |-> BlankSite,
     doc         |-> BlankPage,
     clicked     |-> FALSE,
     room_cards  |-> <<>>,
     k           |-> 1,
     rooms_data  |-> <<>>,
     calls       |-> {},
     open        |-> 0,
     hard        |-> FALSE,
     rows        |-> <<>>,
     progress    |-> "Searching for ..."]

EhIdleFrame == [EhFrame(Hotel("", "", "", "")) EXCEPT !.stage = "idle", !.progress = ""]

\* `return rows`
Returned(fr, rows) == [fr EXCEPT !.stage = "done", !.rows = rows]

\* The mutant of HardFailure: the rooms extracted before the error are kept in
\* front of the placeholder row.
HardFailureKeepsRooms(fr, hotel, exc) ==
    [fr EXCEPT !.stage = "done", !.hard = TRUE,
               !.rows = fr.rooms_data \o <<FailedRow(hotel, exc)>>]

\* The except of extract_hotel: one placeholder row, rooms_data dropped
HardFailure(fr, hotel, exc) ==
    [fr EXCEPT !.stage = "done", !.hard = TRUE, !.rows = <<FailedRow(hotel, exc)>>]

\* The mutant of SearchStep: the `if not website_url` return is missing.
SearchStepNoCheck(fr, hotel, o) ==
    LET r == SearchHotelWebsite(o)
        e1 == [fr EXCEPT !.so = o, !.search = r,
                         !.calls = @ \cup {"search_hotel_website"},
                         !.open = @ + r.opened - r.closed]
    IN  IF r.raised THEN HardFailure(e1, hotel, r.exc)
        ELSE [e1 EXCEPT !.stage = "open", !.website_url = r.url,
                        !.progress = "Found website: ..."]

\* website_url = await self.search_hotel_website(hotel_name, city), and the
\* return of the website-not-found row
SearchStep(fr, hotel, o) ==
    LET r == SearchHotelWebsite(o)
        e1 == [fr EXCEPT !.so = o, !.search = r,
                         !.calls = @ \cup {"search_hotel_website"},
                         !.open = @ + r.opened - r.closed]
    IN  IF r.raised THEN HardFailure(e1, hotel, r.exc)
        ELSE IF r.url \in {NoUrl, ""} THEN Returned(e1, <<WebsiteNotFoundRow(hotel)>>)
        ELSE [e1 EXCEPT !.stage = "open", !.website_url = r.url,
                        !.progress = "Found website: ..."]

\* What opening the site does: whether create_page() raises, whether
\* goto/wait_for_load_state raise, and the site that is reached
SiteOracle(createFails, loadFails, site) ==
    [createFails |-> createFails, loadFails |-> loadFails, site |-> site]

\* page = await self.create_page(); goto; wait_for_load_state
OpenSiteStep(fr, hotel, o) ==
    LET e1 == [fr EXCEPT !.calls = @ \cup {"create_page"}]
    IN  IF o.createFails THEN HardFailure(e1, hotel, TargetClosed)
        ELSE IF o.loadFails
        THEN HardFailure([e1 EXCEPT !.open = @ + 1], hotel, TimeoutError)
        ELSE [e1 EXCEPT !.stage = "nav", !.site = o.site, !.doc = o.site.entry,
                        !.open = @ + 1, !.progress = "Looking for rooms page..."]

\* clicked = await self.find_and_click_rooms_link(page, website_url)
NavStep(fr, oracle) ==
    LET r == FindAndClickRoomsLink(oracle)
    IN  [fr EXCEPT !.stage = "cards", !.clicked = r.clicked,
                   !.doc = IF r.moved THEN fr.site.rooms ELSE fr.site.entry,
                   !.calls = @ \cup {"find_and_click_rooms_link"},
                   !.progress = IF r.clicked THEN "Found rooms section!"
                                ELSE "Searching for rooms on homepage..."]

\* The mutant of CardsStep: with no room card the (empty) rooms_data is
\* returned instead of the no-rooms row.
CardsStepNoPlaceholder(fr, hotel, closeFails) ==
    LET room_cards == FindRoomCards(fr.doc)
        e1 == [fr EXCEPT !.room_cards = room_cards,
                         !.calls = @ \cup {"find_room_cards_on_page"}]
    IN  IF room_cards = <<>>
        THEN IF closeFails THEN HardFailure(e1, hotel, TargetClosed)
             ELSE Returned([e1 EXCEPT !.open = @ - 1], fr.rooms_data)
        ELSE [e1 EXCEPT !.stage = "room", !.k = 1, !.progress = "Found n room types!"]

\* room_cards = await self.find_room_cards_on_page(page), and the return of
\* the no-rooms row after page.close()
CardsStep(fr, hotel, closeFails) ==
    LET room_cards == FindRoomCards(fr.doc)
        e1 == [fr EXCEPT !.room_cards = room_cards,
                         !.calls = @ \cup {"find_room_cards_on_page"}]
    IN  IF room_cards = <<>>
        THEN IF closeFails THEN HardFailure(e1, hotel, TargetClosed)
             ELSE Returned([e1 EXCEPT !.open = @ - 1], <<NoRoomsRow(hotel, fr.website_url)>>)
        ELSE [e1 EXCEPT !.stage = "room", !.k = 1, !.progress = "Found n room types!"]

\* What a room's detail page does: whether create_page() raises, whether
\* goto/wait_for_load_state raise, the page that is reached and whether its
\* close() raises
DetailOracle(createFails, loadFails, page, closeFails) ==
    [createFails |-> createFails, loadFails |-> loadFails, page |-> page,
     closeFails |-> closeFails]

\* `if room_url and room_url != '#'`
HasDetailPage(room_url) == room_url \notin {NoUrl, "", "#"}

\* One iteration of `for room_card in room_cards`
RoomStep(fr, hotel, d) ==
    LET room_card == fr.room_cards[fr.k]
        room_name == room_card.name
        onDetail  == HasDetailPage(room_card.url) /\ ~d.createFails /\ ~d.loadFails
                     /\ ~d.closeFails
        from      == IF onDetail THEN d.page ELSE fr.doc
        details   == ExtractRoomDetails(from, room_name)
        images    == CaptureRoomImages(from, hotel.hotel_id, room_name)
        opened    == IF HasDetailPage(room_card.url) /\ ~d.createFails THEN 1 ELSE 0
        closed    == IF onDetail THEN 1 ELSE 0
    IN  [fr EXCEPT !.rooms_data = Append(@, RoomRow(hotel, room_name, images, details)),
                   !.k = @ + 1,
                   !.stage = IF fr.k = Len(fr.room_cards) THEN "close" ELSE "room",
                   !.open = @ + opened - closed,
                   !.calls = @ \cup {"extract_room_details", "capture_room_images"}
                                \cup (IF HasDetailPage(room_card.url)
                                      THEN {"create_page"} ELSE {}),
                   !.progress = "Extracting: ..."]

\* The mutant of CloseStep: when the close fails, the failed row is appended
\* to the rooms already extracted.
CloseStepKeepsRooms(fr, hotel, closeFails) ==
    IF closeFails
    THEN [fr EXCEPT !.stage = "done", !.hard = TRUE,
                    !.rows = fr.rooms_data \o <<FailedRow(hotel, TargetClosed)>>]
    ELSE Returned([fr EXCEPT !.open = @ - 1], fr.rooms_data)

\* await page.close() after the loop, and `return rooms_data`
CloseStep(fr, hotel, closeFails) ==
    IF closeFails THEN HardFailure(fr, hotel, TargetClosed)
    ELSE Returned([fr EXCEPT !.open = @ - 1], fr.rooms_data)

----------------------------------------------------------------------------
(* One call of find_room_cards_on_page *)

\* The names of the generated cards and headings, by document position
RoomNames ==
    << "Room 01", "Room 02", "Room 03", "Room 04", "Room 05", "Room 06", "Room 07", "Room 08", "Room 09", "Room 10", "Room 11", "Room 12", "Room 13", "Room 14", "Room 15", "Room 16", "Room 17", "Room 18", "Room 19", "Room 20", "Room 21", "Room 22", "Room 23", "Room 24", "Room 25", "Room 26", "Room 27", "Room 28", "Room 29", "Room 30" >>

RoomName(pos) == RoomNames[((pos - 1) % Len(RoomNames)) + 1]

\* The kinds of card elements: an accepted name with a link to a detail page,
\* names on both edges of the length band, a padded name, an element without a
\* title, and one whose reads raise.
CardKinds == {"linked", "unlinked", "hash", "len3", "len4", "len99", "len100",
              "padded3", "untitled", "raises"}

CardOfKind(pos, kind) ==
    CASE kind = "linked"   -> CardElem(pos, TRUE, Text(RoomName(pos), <<4, -1, 2>>), "/rooms/detail", FALSE)
      [] kind = "unlinked" -> CardElem(pos, TRUE, Text(RoomName(pos), <<4, -1, 2>>), NoUrl, FALSE)
      [] kind = "hash"     -> CardElem(pos, TRUE, Text(RoomName(pos), <<4, -1, 2>>), "#", FALSE)
      [] kind = "len3"     -> CardElem(pos, TRUE, Text(RoomName(pos), <<3>>), NoUrl, FALSE)
      [] kind = "len4"     -> CardElem(pos, TRUE, Text(RoomName(pos), <<4>>), NoUrl, FALSE)
      [] kind = "len99"    -> CardElem(pos, TRUE, Text(RoomName(pos), <<99>>), NoUrl, FALSE)
      [] kind = "len100"   -> CardElem(pos, TRUE, Text(RoomName(pos), <<100>>), NoUrl, FALSE)
      [] kind = "padded3"  -> CardElem(pos, TRUE, Text(RoomName(pos), <<-2, 3, -1>>), NoUrl, FALSE)
      [] kind = "untitled" -> CardElem(pos, FALSE, EmptyText, NoUrl, FALSE)
      [] kind = "raises"   -> CardElem(pos, TRUE, Text(RoomName(pos), <<4, -1, 2>>), NoUrl, TRUE)

HeadingKinds == {"room", "Suite", "about", "rooms3", "long", "raises"}

HeadingOfKind(pos, kind) ==
    CASE kind = "room"   -> Heading(pos, Text(RoomName(pos), <<4, -1, 2>>), {"room"}, FALSE)
      [] kind = "Suite"  -> Heading(pos, Text(RoomName(pos), <<6, -1, 5>>), {"Ocean", "Suite"}, FALSE)
      [] kind = "about"  -> Heading(pos, Text(RoomName(pos), <<5, -1, 2>>), {"about"}, FALSE)
      [] kind = "rooms3" -> Heading(pos, Text(RoomName(pos), <<-1, 3>>), {"room"}, FALSE)
      [] kind = "long"   -> Heading(pos, Text(RoomName(pos), <<4, -1, 120>>), {"room"}, FALSE)
      [] kind = "raises" -> Heading(pos, Text(RoomName(pos), <<4, -1, 2>>), {"room"}, TRUE)

\* n elements from document position `from` on: the first of kind `first`, the
\* others of kind `others`
ElemsOf(from, n, first, others) ==
    [i \in 1..n |-> CardOfKind(from + i - 1, IF i = 1 THEN first ELSE others)]

HeadingsOf(n, first, others) ==
    [i \in 1..n |-> HeadingOfKind(i, IF i = 1 THEN first ELSE others)]

NoCards == [k \in 1..Len(CardSelectors) |-> <<>>]

CardsPage(cards, headings, scrollFails, cardQueryFails, headingQueryFails) ==
    [cards |-> cards, headings |-> headings, scrollFails |-> scrollFails,
     cardQueryFails |-> cardQueryFails, headingQueryFails |-> headingQueryFails]

\* Pages whose cards two selectors s1 < s2 match
StructuralPages ==
    { CardsPage([k \in 1..Len(CardSelectors) |->
                    IF k = s1 THEN ElemsOf(1, n1, first, "linked")
                    ELSE IF k = s2 THEN ElemsOf(n1 + 1, n2, "unlinked", "unlinked")
                    ELSE <<>>],
                HeadingsOf(2, "room", "room"), FALSE, 0, FALSE) :
        s1 \in 1..Len(CardSelectors), s2 \in 1..Len(CardSelectors),
        n1 \in 0..MaxCards, n2 \in 0..1, first \in CardKinds }

\* Pages whose candidates, if any, come from the headings, and pages on which
\* a query raises
HeadingPages ==
    { CardsPage([NoCards EXCEPT ![5] = ElemsOf(1, n1, "untitled", "len3")],
                HeadingsOf(hn, first, "room"), f[1], f[2], f[3]) :
        n1 \in 0..2, hn \in 0..MaxCards, first \in HeadingKinds,
        f \in {<<FALSE, 0, FALSE>>, <<TRUE, 0, FALSE>>, <<FALSE, 1, FALSE>>,
               <<FALSE, 6, FALSE>>, <<FALSE, 0, TRUE>>} }

CardsPages == StructuralPages \cup HeadingPages

CdInit ==
    /\ cd_pc = "start"
    /\ cd_page \in CardsPages
    /\ cd_result = <<>>

CdIdle ==
    /\ cd_pc = "idle"
    /\ cd_page = CardsPage(NoCards, <<>>, FALSE, 0, FALSE)
    /\ cd_result = <<>>

otherThanCd == <<imVars, dtVars, phVars, appVars, polled>>

\* Whether a statement outside the per-element try raises: the scrolling, a
\* query_selector_all of a selector that is reached, or the heading query
CardsRaises(page) ==
    \/ page.scrollFails
    \/ ScanSelectors(page, 1).raised
    \/ ScanSelectors(page, 1).cards = <<>> /\ page.headingQueryFails

\* The scan completes and room_cards[:20] is returned.
CdReturn ==
    /\ cd_pc = "start"
    /\ ~CardsRaises(cd_page)
    /\ cd_result' = FindRoomCards(cd_page)
    /\ cd_pc' = "done"
    /\ UNCHANGED cd_page
    /\ UNCHANGED otherThanCd

\* A statement outside the per-element try raises: the except prints the
\* error and room_cards[:20] is returned as it stands.
CdRaises ==
    /\ cd_pc = "start"
    /\ CardsRaises(cd_page)
    /\ cd_result' = FindRoomCards(cd_page)
    /\ cd_pc' = "done"
    /\ UNCHANGED cd_page
    /\ UNCHANGED otherThanCd

NextCards == CdReturn \/ CdRaises

\* C8: find_room_cards_on_page never returns more than 20 candidates,
\* whichever strategy produced them and however many elements match.
C8_AtMost20Candidates ==
    cd_pc = "done" => Len(cd_result) <= MaxRooms

\* C8 witness: a page on which more than 20 elements yield a candidate, from
\* which exactly 20 were returned.
C8_Witness ==
    /\ cd_pc = "done"
    /\ Len(RoomCardsFound(cd_page)) > MaxRooms
    /\ Len(cd_result) = MaxRooms

\* The first selector, in priority order, that matches at least one element
\* of the page, or 0
FirstMatchingSelector(page) ==
    LET matching == {k \in 1..Len(CardSelectors) : page.cards[k] # <<>>}
    IN  IF matching = {} THEN 0
        ELSE CHOOSE k \in matching : \A j \in matching : k <= j

\* C22: the structural candidates are those of the first selector, in
\* priority order, that matches at least one element; later selectors are not
\* consulted, and the headings are used only when the structural scan gave no
\* candidate.
C22_FirstMatchingSelectorOnly ==
    (cd_pc = "done" /\ ~CardsRaises(cd_page)) =>
        LET k == FirstMatchingSelector(cd_page)
            structural == IF k = 0 THEN <<>> ELSE CardsOf(cd_page.cards[k])
        IN  IF structural # <<>>
            THEN cd_result = FirstN(structural, MaxRooms)
            ELSE cd_result = FirstN(HeadingCards(cd_page.headings), MaxRooms)

\* C23: in the structural strategy the heading text of an element is accepted
\* as a room name exactly when its trimmed length is between 3 and 100
\* characters inclusive; stated of the elements of the first matching selector
\* when they are few enough for the cut of the result to keep them all.
C23_LengthBandInclusive ==
    (cd_pc = "done" /\ ~CardsRaises(cd_page)) =>
        LET k == FirstMatchingSelector(cd_page)
            elements == IF k = 0 THEN <<>> ELSE cd_page.cards[k]
        IN  Len(elements) <= MaxRooms =>
                \A n \in 1..Len(elements) :
                    LET elem == elements[n]
                        room_name == Strip(elem.title)
                    IN  (~elem.fails /\ elem.hasTitle) =>
                            ((/\ CharLen(room_name.runs) >= MinNameLen
                              /\ CharLen(room_name.runs) <= MaxNameLen)
                             <=> \E i \in 1..Len(cd_result) :
                                    /\ cd_result[i].element = elem.pos
                                    /\ cd_result[i].name = room_name)

----------------------------------------------------------------------------
(* One call of capture_room_images, an iteration of its loop at a time *)


BigBox == Box(800, 600)

ImgKinds ==
    { Img({"photo"}, {}, {}, {}, BigBox, FALSE, FALSE),          \* a room photo
      Img({}, {"photo"}, {"Bath"}, {}, BigBox, FALSE, FALSE),      \* lazy, alt "Bath"
      Img({"photo"}, {}, {}, {"seaview"}, BigBox, FALSE, FALSE),   \* class "seaview"
      Img({"photo"}, {}, {}, {}, BigBox, FALSE, TRUE),             \* screenshot raises
      Img({"logo"}, {}, {}, {}, Box(199, 600), FALSE, FALSE),      \* too narrow
      Img({"bathroom"}, {}, {}, {}, BigBox, TRUE, FALSE) }         \* scroll raises

ImgPages ==
    { [imgs |-> imgs, mkdirFails |-> mk, imgQueryFails |-> qf] :
        imgs \in SeqsUpTo(ImgKinds, MaxImgs),
        mk \in BOOLEAN, qf \in BOOLEAN }

otherThanIm == <<dtVars, cdVars, phVars, appVars, polled>>

ImInit ==
    /\ im_pc = "start"
    /\ im_page \in ImgPages
    /\ im_idx = 1
    /\ im_st = LoopInit
    /\ im_assigns = [s \in Slots |-> 0]
    /\ im_examined = 0
    /\ im_result = ImagesInit

ImIdle ==
    /\ im_pc = "idle"
    /\ im_page = [imgs |-> <<>>, mkdirFails |-> FALSE, imgQueryFails |-> FALSE]
    /\ im_idx = 0
    /\ im_st = LoopInit
    /\ im_assigns = [s \in Slots |-> 0]
    /\ im_examined = 0
    /\ im_result = ImagesInit

\* os.makedirs or the image query raises: the outer except returns the
\* all-failed set.
ImSetupFails ==
    /\ im_pc = "start"
    /\ SetupRaises(im_page)
    /\ im_result' = StageFailure(im_st.images)
    /\ im_pc' = "done"
    /\ UNCHANGED <<im_page, im_idx, im_st, im_assigns, im_examined>>
    /\ UNCHANGED otherThanIm

ImSetupOk ==
    /\ im_pc = "start"
    /\ ~SetupRaises(im_page)
    /\ im_pc' = "loop"
    /\ UNCHANGED <<im_page, im_idx, im_st, im_assigns, im_examined, im_result>>
    /\ UNCHANGED otherThanIm

\* One iteration of `for idx, img_elem in enumerate(img_elements)`.
ImIter ==
    /\ im_pc = "loop"
    /\ im_idx <= Len(im_page.imgs)
    /\ ~LoopBreaks(im_st)
    /\ LET elem == im_page.imgs[im_idx]
           slot == IterSlot(im_st, elem)
       IN  /\ im_st' = CaptureIter(im_st, elem, SampleHotelId,
                                   NormalizeRoomName(SampleRoomName))
           /\ im_assigns' = IF slot = None THEN im_assigns
                             ELSE [im_assigns EXCEPT ![slot] = @ + 1]
           /\ im_examined' = IF \A s \in Slots : im_st.images[s] # NOT_AVAILABLE
                              THEN im_examined + 1 ELSE im_examined
    /\ im_idx' = im_idx + 1
    /\ UNCHANGED <<im_pc, im_page, im_result>>
    /\ UNCHANGED otherThanIm

\* The loop ends (exhausted, or the break) and the function returns images.
ImReturn ==
    /\ im_pc = "loop"
    /\ im_idx > Len(im_page.imgs) \/ LoopBreaks(im_st)
    /\ im_result' = im_st.images
    /\ im_pc' = "done"
    /\ UNCHANGED <<im_page, im_idx, im_st, im_assigns, im_examined>>
    /\ UNCHANGED otherThanIm

NextImages == ImSetupFails \/ ImSetupOk \/ ImIter \/ ImReturn

\* The step-wise call returns what the function computes.
ImStepwiseAgrees ==
    im_pc = "done" =>
        im_result = CaptureRoomImages(im_page, SampleHotelId, SampleRoomName)

\* C9: within one call of capture_room_images no slot is assigned more than
\* once, and no image element is examined once all four slots are filled.
C9_SlotsAssignedOnce ==
    /\ \A s \in Slots : im_assigns[s] <= 1
    /\ im_examined = 0

\* C9 witness: the call returned with all four slots filled while image
\* elements were left unexamined.
C9_Witness ==
    /\ im_pc = "done"
    /\ \A s \in Slots : im_result[s] \notin {NOT_AVAILABLE, SCREENSHOT_FAILED}
    /\ im_idx <= Len(im_page.imgs)

\* C10: the returned ImageSet never mixes the fatal sentinel with anything
\* else: if one slot is SCREENSHOT FAILED, all four are.
C10_FatalAllOrNothing ==
    im_pc = "done" =>
        ((\E s \in Slots : im_result[s] = SCREENSHOT_FAILED)
            => \A s \in Slots : im_result[s] = SCREENSHOT_FAILED)

\* C10 witness: a call whose setup raised returned the all-failed set.
C10_Witness ==
    /\ im_pc = "done"
    /\ SetupRaises(im_page)
    /\ im_result = ImagesFailed

\* What one iteration of the loop may do with the element it examines: the
\* slot it fills, if any, is the one the element's text selects, and a
\* captured image without "bath", "view" or "vista" fills room1 or, room1
\* being filled, room2.
ImIterFillsItsSlot ==
    (im_pc = "loop" /\ im_idx' = im_idx + 1) =>
        LET elem == im_page.imgs[im_idx]
            text == CombinedText(elem)
            bath == InText("bath", text)
            view == ~bath /\ (InText("view", text) \/ InText("vista", text))
            filled(s) == im_st.images[s] # NOT_AVAILABLE
            fills(s) == im_st'.images[s] # im_st.images[s]
            expected == IF bath THEN "bathroom"
                        ELSE IF view THEN "view"
                        ELSE IF ~filled("room1") THEN "room1"
                        ELSE "room2"
            captures == /\ ~elem.scrollFails /\ ~elem.shotFails
                        /\ elem.box.present
                        /\ elem.box.width >= MinWidth /\ elem.box.height >= MinHeight
        IN  /\ \A s \in Slots : fills(s) => s = expected
            /\ (captures /\ ~filled(expected)) => fills(expected)

\* C24: an image with "bath" in its source, alt text or class only ever fills
\* the bathroom slot, one with "view" or "vista" and no "bath" only the view
\* slot, and any other captured image fills room1 if room1 is unfilled, else
\* room2; so room2 is never filled while room1 is unfilled, also after a
\* capture for room1 has failed.
C24_SlotByTextRoom1First ==
    /\ [][ImIterFillsItsSlot]_vars
    /\ [](im_st.images["room2"] # NOT_AVAILABLE => im_st.images["room1"] # NOT_AVAILABLE)

\* C24 witness: the first image is a room photo whose screenshot raised, a
\* later photo was captured, and the call returned with room1, bathroom and
\* view filled and room2 unfilled.
C24_Witness ==
    /\ im_pc = "done"
    /\ Len(im_page.imgs) >= 1
    /\ im_page.imgs[1].shotFails
    /\ ~InText("bath", CombinedText(im_page.imgs[1]))
    /\ im_result["room1"] \notin {NOT_AVAILABLE, SCREENSHOT_FAILED}
    /\ im_result["bathroom"] \notin {NOT_AVAILABLE, SCREENSHOT_FAILED}
    /\ im_result["view"] \notin {NOT_AVAILABLE, SCREENSHOT_FAILED}
    /\ im_result["room2"] = NOT_AVAILABLE

----------------------------------------------------------------------------
(* One call of process_hotels, a stage of extract_hotel at a time *)

HomeUrl == "https://www.grandhotel.example/"
RoomsUrl == "https://www.grandhotel.example/rooms"
DetailUrl == "https://www.grandhotel.example/rooms/deluxe-king"

Photo == Img({"photo"}, {}, {}, {}, BigBox, FALSE, FALSE)
BathPhoto == Img({}, {"photo"}, {"Bath"}, {}, BigBox, FALSE, FALSE)
Logo == Img({"logo"}, {}, {}, {}, Box(199, 600), FALSE, FALSE)

\* An entry page without cards or room headings
HomeNoRooms ==
    [BlankPage EXCEPT !.url = HomeUrl,
                      !.content = <<"pool", " ", "view">>,
                      !.imgs = <<Logo>>,
                      !.headings = <<Heading(1, Text("About us", <<5, -1, 2>>), {"about"}, FALSE)>>]

\* An entry page with one room heading
HomeWithHeading ==
    [HomeNoRooms EXCEPT !.headings = <<Heading(1, Text("Ocean Suite", <<5, -1, 5>>),
                                               {"Ocean", "Suite"}, FALSE)>>,
                        !.imgs = <<Logo, Photo>>]

\* A rooms page with two cards, the first with a detail page
RoomsTwoCards ==
    [BlankPage EXCEPT !.url = RoomsUrl,
                      !.content = <<"40", "mÂ²", "\n", "2", " ", "Queen", " ", "beds">>,
                      !.paragraphs = <<Para(FALSE, Text("Our rooms ...", WordsOf(35, 4)))>>,
                      !.imgs = <<Photo, BathPhoto>>,
                      !.cards[1] = <<CardElem(1, TRUE, Text("Deluxe King", <<6, -1, 4>>),
                                              "/rooms/deluxe-king", FALSE),
                                     CardElem(2, TRUE, Text("Ocean Suite", <<5, -1, 5>>),
                                              NoUrl, FALSE)>>]

\* A room's detail page
DetailKing ==
    [BlankPage EXCEPT !.url = DetailUrl,
                      !.content = <<"35", " ", "m²", " ", "king", " ", "bed", " ", "sea", " ", "view">>,
                      !.paragraphs = <<Para(FALSE, Text("The Deluxe King ...",
                                                        <<-1, 25, -1, 25, -1>>))>>,
                      !.imgs = <<Photo, Photo, BathPhoto>>]

\* A detail page on which every read fails
DetailBroken ==
    [DetailKing EXCEPT !.contentFails = TRUE, !.imgQueryFails = TRUE]

Sites ==
    { [entry |-> HomeNoRooms, rooms |-> RoomsTwoCards],
      [entry |-> HomeWithHeading, rooms |-> HomeNoRooms] }

SearchOracles ==
    { SearchOracle(TRUE, FALSE, NoUrl, FALSE),                       \* create_page raises
      SearchOracle(FALSE, TRUE, NoUrl, FALSE),                       \* network error
      SearchOracle(FALSE, FALSE, NoUrl, FALSE),                      \* no results
      SearchOracle(FALSE, FALSE, "https://www.Booking.com/hotel/grand", FALSE),
      SearchOracle(FALSE, FALSE, HomeUrl, FALSE),
      SearchOracle(FALSE, FALSE, HomeUrl, TRUE) }                    \* close raises

SiteOracles ==
    { SiteOracle(TRUE, FALSE, BlankSite), SiteOracle(FALSE, TRUE, BlankSite) }
    \cup { SiteOracle(FALSE, FALSE, site) : site \in Sites }

NavOracles ==
    { <<>>,                                   \* nothing matches
      <<"raises", "clicked">>,                \* the second selector clicks through
      <<"clickedTimeout">>,                   \* navigated, the wait timed out
      [n \in 1..(ClickAttempts + 2) |->
          IF n = ClickAttempts + 2 THEN "followed" ELSE "none"],
      [n \in 1..(ClickAttempts + 1) |->          \* goto navigated, the wait timed out
          IF n = ClickAttempts + 1 THEN "followedTimeout" ELSE "raises"] }

DetailOracles ==
    { DetailOracle(FALSE, FALSE, DetailKing, FALSE),
      DetailOracle(FALSE, FALSE, DetailBroken, FALSE),
      DetailOracle(TRUE, FALSE, BlankPage, FALSE),
      DetailOracle(FALSE, TRUE, BlankPage, FALSE),
      DetailOracle(FALSE, FALSE, DetailKing, TRUE) }

HotelIds == <<"H1", "H2", "H3", "H4", "H5">>

\* The batch of n hotels
HotelList(n) ==
    [i \in 1..n |-> Hotel(HotelIds[((i - 1) % Len(HotelIds)) + 1], "Grand Hotel", "Miami", "")]

PhInit ==
    /\ ph_pc = "init"
    /\ hotels \in {HotelList(n) : n \in 0..MaxHotels}
    /\ ph_idx = 1
    /\ all_rooms = <<>>
    /\ eh = EhIdleFrame
    /\ browser = "none"
    /\ ph_hard = {}
    /\ ph_result = <<>>

PhIdle ==
    /\ ph_pc = "idle"
    /\ hotels = <<>>
    /\ ph_idx = 1
    /\ all_rooms = <<>>
    /\ eh = EhIdleFrame
    /\ browser = "none"
    /\ ph_hard = {}
    /\ ph_result = <<>>

otherThanPh == <<imVars, dtVars, cdVars, appVars, polled>>

\* playwright = await self.init_browser(): outside the try, so a failed launch
\* leaves process_hotels at once
PhInitBrowser ==
    /\ ph_pc = "init"
    /\ \E launchFails \in BOOLEAN :
          IF launchFails
          THEN ph_pc' = "raised" /\ browser' = "none"
          ELSE ph_pc' = "loop" /\ browser' = "open"
    /\ UNCHANGED <<hotels, ph_idx, all_rooms, eh, ph_hard, ph_result>>
    /\ UNCHANGED otherThanPh

\* The loop takes the next hotel and calls extract_hotel.
PhNextHotel ==
    /\ ph_pc = "loop"
    /\ ph_idx <= Len(hotels)
    /\ eh' = EhFrame(hotels[ph_idx])
    /\ ph_pc' = "hotel"
    /\ UNCHANGED <<hotels, ph_idx, all_rooms, browser, ph_hard, ph_result>>
    /\ UNCHANGED otherThanPh

EhSearch ==
    /\ ph_pc = "hotel" /\ eh.stage = "search"
    /\ \E o \in SearchOracles : eh' = SearchStep(eh, hotels[ph_idx], o)
    /\ UNCHANGED <<ph_pc, hotels, ph_idx, all_rooms, browser, ph_hard, ph_result>>
    /\ UNCHANGED otherThanPh

EhOpenSite ==
    /\ ph_pc = "hotel" /\ eh.stage = "open"
    /\ \E o \in SiteOracles : eh' = OpenSiteStep(eh, hotels[ph_idx], o)
    /\ UNCHANGED <<ph_pc, hotels, ph_idx, all_rooms, browser, ph_hard, ph_result>>
    /\ UNCHANGED otherThanPh

EhNavigate ==
    /\ ph_pc = "hotel" /\ eh.stage = "nav"
    /\ \E oracle \in NavOracles : eh' = NavStep(eh, oracle)
    /\ UNCHANGED <<ph_pc, hotels, ph_idx, all_rooms, browser, ph_hard, ph_result>>
    /\ UNCHANGED otherThanPh

EhEnumerate ==
    /\ ph_pc = "hotel" /\ eh.stage = "cards"
    /\ \E closeFails \in BOOLEAN : eh' = CardsStep(eh, hotels[ph_idx], closeFails)
    /\ UNCHANGED <<ph_pc, hotels, ph_idx, all_rooms, browser, ph_hard, ph_result>>
    /\ UNCHANGED otherThanPh

EhRoom ==
    /\ ph_pc = "hotel" /\ eh.stage = "room"
    /\ \E d \in DetailOracles : eh' = RoomStep(eh, hotels[ph_idx], d)
    /\ UNCHANGED <<ph_pc, hotels, ph_idx, all_rooms, browser, ph_hard, ph_result>>
    /\ UNCHANGED otherThanPh

EhClose ==
    /\ ph_pc = "hotel" /\ eh.stage = "close"
    /\ \E closeFails \in BOOLEAN : eh' = CloseStep(eh, hotels[ph_idx], closeFails)
    /\ UNCHANGED <<ph_pc, hotels, ph_idx, all_rooms, browser, ph_hard, ph_result>>
    /\ UNCHANGED otherThanPh

\* The mutant of PhExtend: the rows of the hotel are put in front.
PhExtendInFront ==
    /\ ph_pc = "hotel" /\ eh.stage = "done"
    /\ all_rooms' = eh.rows \o all_rooms
    /\ ph_hard' = IF eh.hard THEN ph_hard \cup {ph_idx} ELSE ph_hard
    /\ ph_idx' = ph_idx + 1
    /\ ph_pc' = "loop"
    /\ UNCHANGED <<hotels, eh, browser, ph_result>>
    /\ UNCHANGED otherThanPh

\* extract_hotel returns: all_rooms.extend(rooms), the pause, the next idx
PhExtend ==
    /\ ph_pc = "hotel" /\ eh.stage = "done"
    /\ all_rooms' = all_rooms \o eh.rows
    /\ ph_hard' = IF eh.hard THEN ph_hard \cup {ph_idx} ELSE ph_hard
    /\ ph_idx' = ph_idx + 1
    /\ ph_pc' = "loop"
    /\ UNCHANGED <<hotels, eh, browser, ph_result>>
    /\ UNCHANGED otherThanPh

\* The loop is over: the finally closes the browser and stops playwright; if
\* either raises, the error leaves process_hotels in place of the rows.
PhFinally ==
    /\ ph_pc = "loop"
    /\ ph_idx > Len(hotels)
    /\ \E closeFails \in BOOLEAN :
          IF closeFails
          THEN ph_pc' = "raised" /\ browser' = "open" /\ ph_result' = ph_result
          ELSE ph_pc' = "returned" /\ browser' = "closed" /\ ph_result' = all_rooms
    /\ UNCHANGED <<hotels, ph_idx, all_rooms, eh, ph_hard>>
    /\ UNCHANGED otherThanPh

NextBatch ==
    \/ PhInitBrowser \/ PhNextHotel
    \/ EhSearch \/ EhOpenSite \/ EhNavigate \/ EhEnumerate \/ EhRoom \/ EhClose
    \/ PhExtend \/ PhFinally

\* The rows of the hotel at position i among rows
IsOfHotel(row, i) == row.hotel_id = hotels[i].hotel_id
RowsOf(rows, i) == SelectSeq(rows, LAMBDA row : IsOfHotel(row, i))

IsPlaceholder(row) == row.room_name = NotApplicable

\* The positions of the hotels that extract_hotel has returned for
Processed == 1..(ph_idx - 1)

\* C1: when process_hotels returns, the result holds at least one row for
\* each hotel of the list, whichever way the hotel's extraction ended.
C1_EveryHotelHasARow ==
    ph_pc = "returned" =>
        \A i \in 1..Len(hotels) : RowsOf(ph_result, i) # <<>>

\* A batch returned in which one hotel failed hard, one got a placeholder
\* for a soft failure or real rows, and both are in the result.
C1_Witness ==
    /\ ph_pc = "returned"
    /\ Len(hotels) >= 2
    /\ ph_hard # {}
    /\ \E i \in 1..Len(hotels) :
          /\ i \notin ph_hard
          /\ RowsOf(ph_result, i) # <<>>

\* search_hotel_website returned None to the running call of extract_hotel
SearchReturnedNotFound ==
    /\ ph_pc = "hotel"
    /\ "search_hotel_website" \in eh.calls
    /\ ~eh.search.raised
    /\ eh.search.url = NoUrl

\* C3: when search_hotel_website returns not-found, extract_hotel returns
\* exactly one row, named N/A, of Low confidence, whose notes say that the
\* website was not found, and it has invoked no stage after the search.
C3_NotFoundOneRowNoLaterStage ==
    SearchReturnedNotFound =>
        /\ eh.stage = "done"
        /\ Len(eh.rows) = 1
        /\ eh.rows[1].room_name = NotApplicable
        /\ eh.rows[1].confidence = "Low"
        /\ eh.rows[1].notes.id = "Official website not found"
        /\ eh.calls = {"search_hotel_website"}

\* The search found only a denylisted link, and the call has returned.
C3_Witness ==
    /\ SearchReturnedNotFound
    /\ eh.so.link # NoUrl
    /\ eh.stage = "done"

\* C4: a hotel whose extraction left through the except of extract_hotel
\* contributes exactly one row, of method Failed and Low confidence; the
\* batch goes on: it raises only before the first or after the last hotel,
\* and at the end of the loop every hotel of the list has its rows.
C4_HardFailureOneRowBatchContinues ==
    /\ \A i \in ph_hard :
          /\ Len(RowsOf(all_rooms, i)) = 1
          /\ RowsOf(all_rooms, i)[1].room_match_method = "Failed"
          /\ RowsOf(all_rooms, i)[1].confidence = "Low"
    /\ (ph_hard # {} /\ ph_pc \in {"raised", "returned"}) =>
          /\ ph_idx = Len(hotels) + 1
          /\ \A j \in 1..Len(hotels) : RowsOf(all_rooms, j) # <<>>
    /\ \A j \in Processed : RowsOf(all_rooms, j) # <<>>

\* The first hotel failed hard, the second hotel was then processed and
\* contributed rows of its rooms.
C4_Witness ==
    /\ ph_pc = "returned"
    /\ 1 \in ph_hard
    /\ Len(hotels) >= 2
    /\ 2 \notin ph_hard
    /\ \E n \in 1..Len(ph_result) :
          IsOfHotel(ph_result[n], 2) /\ ~IsPlaceholder(ph_result[n])

\* The search page met a network error, no result or a denylisted result,
\* and nothing else went wrong with it
SearchFailedSoftly ==
    /\ ph_pc = "hotel"
    /\ "search_hotel_website" \in eh.calls
    /\ ~eh.so.createFails /\ ~eh.so.closeFails
    /\ \/ eh.so.loadFails
       \/ eh.so.link = NoUrl
       \/ Denylisted(eh.so.link)

\* C5: on a network error, no result or a denylisted result,
\* search_hotel_website does not raise but returns not-found, and
\* extract_hotel returns the website-not-found row (method No match), not
\* the hard-failure row.
C5_SiteDiscoveryNeverRaises ==
    SearchFailedSoftly =>
        /\ ~eh.search.raised
        /\ eh.search.url = NoUrl
        /\ eh.rows = <<WebsiteNotFoundRow(hotels[ph_idx])>>
        /\ eh.rows[1].room_match_method = "No match"

IsRealRow(row) ==
    /\ row.room_name # NotApplicable
    /\ row.room_match_method = "Exact match"
    /\ row.confidence = "Medium"

IsPlaceholderRow(row) ==
    /\ row.room_name = NotApplicable
    /\ row.confidence = "Low"

\* rows is what one hotel may contribute: real rows only, or one placeholder
OneKind(rows) ==
    \/ Len(rows) = 1 /\ IsPlaceholderRow(rows[1])
    \/ Len(rows) >= 1 /\ \A n \in 1..Len(rows) : IsRealRow(rows[n])

\* C13: the rows a hotel contributes are one real row per discovered room
\* (Exact match, Medium) or exactly one placeholder row (N/A, Low), never a
\* mix and never two placeholders, also when the failure comes after rooms
\* were extracted.
C13_RealRowsOrOnePlaceholder ==
    /\ \A i \in Processed : OneKind(RowsOf(all_rooms, i))
    /\ (ph_pc = "hotel" /\ eh.stage = "done") =>
          /\ OneKind(eh.rows)
          /\ IsRealRow(eh.rows[1]) => Len(eh.rows) = Len(eh.room_cards)

\* A hotel failed hard after rooms had been extracted, and has contributed
\* its single placeholder row.
C13_Witness ==
    /\ ph_pc = "loop"
    /\ \E i \in Processed \cap ph_hard : Len(RowsOf(all_rooms, i)) = 1
    /\ eh.hard
    /\ eh.rooms_data # <<>>

\* The position in the input list of the hotel of a row
HotelPos(row) == CHOOSE i \in 1..Len(hotels) : hotels[i].hotel_id = row.hotel_id

NavReturnedFalse ==
    /\ ph_pc = "hotel"
    /\ eh.stage = "cards"
    /\ ~eh.clicked

\* C16: whenever find_and_click_rooms_link returns False, the page is still
\* the entry page: no click or navigation of an attempted strategy has taken
\* effect, also when the wait after a successful click or goto timed out.
C16_FalseLeavesEntryPage ==
    NavReturnedFalse => eh.doc = eh.site.entry

\* extract_hotel has returned, and not because a page was closed already or
\* could not be closed
ReturnedWithoutCloseError ==
    /\ ph_pc = "hotel"
    /\ eh.stage = "done"
    /\ ~(eh.hard /\ eh.rows[1].notes.msg = TargetClosed.id)

\* C20: every page opened while processing a hotel (the search page, the
\* site page, each room detail page) has been closed when extract_hotel
\* returns, on every path.
C20_AllPagesClosed ==
    ReturnedWithoutCloseError => eh.open = 0

\* The length of "Error: ", the prefix of the notes of a failed row
ErrorPrefixChars == 7

\* C21: the notes of the placeholder row of a hard failure hold the error
\* message truncated to a bounded length (the 50 characters to which the
\* description of the row truncates it), whatever the length of the message.
C21_NotesTruncated ==
    \A n \in 1..Len(all_rooms) :
        all_rooms[n].room_match_method = "Failed" =>
            CharLen(all_rooms[n].notes.runs) <= ErrorPrefixChars + MaxErrorChars

\* The order of the parts of image_files
SlotOrder == <<"room1", "room2", "bathroom", "view">>

\* v is a saved filename of the slot or one of the two sentinels of
\* capture_room_images
IsSlotValue(v, slot) ==
    \/ v = NOT_AVAILABLE
    \/ v = SCREENSHOT_FAILED
    \/ ("slot" \in DOMAIN v /\ v.slot = slot)

\* C12: in every row of the result set, real or placeholder, image_files
\* holds exactly four slot values in the order room1, room2, bathroom, view,
\* each a saved filename or one of the sentinels NOT AVAILABLE and
\* SCREENSHOT FAILED.
C12_FourSlotsFilenameOrSentinel ==
    \A n \in 1..Len(all_rooms) :
        /\ Len(all_rooms[n].image_files) = Len(SlotOrder)
        /\ \A k \in 1..Len(SlotOrder) :
              IsSlotValue(all_rooms[n].image_files[k], SlotOrder[k])

\* The three attributes of a room a row reports
AttributeFields == {"room_area_m2", "bed_type", "views"}

\* C25: every row extract_hotel returns, real or placeholder, has exactly the
\* fields of the column list of save_to_csv, none missing and none extra, and
\* its area, bed type and views hold an extracted value or NOT FOUND (NOT
\* FOUND in every placeholder row).
C25_RowsHaveCsvFields ==
    \A n \in 1..Len(all_rooms) :
        LET row == all_rooms[n]
        IN  /\ DOMAIN row = {fieldnames[k] : k \in 1..Len(fieldnames)}
            /\ \A f \in AttributeFields \cap DOMAIN row :
                  /\ row[f] # <<>>
                  /\ IsPlaceholderRow(row) => row[f] = NOT_FOUND

\* C25 witness: the batch holds a real row with an extracted area next to
\* the placeholder row of a hard failure.
C25_Witness ==
    /\ \E n \in 1..Len(all_rooms) :
          /\ IsRealRow(all_rooms[n])
          /\ all_rooms[n].room_area_m2 # NOT_FOUND
          /\ all_rooms[n].views = NOT_FOUND
    /\ \E n \in 1..Len(all_rooms) : all_rooms[n].room_match_method = "Failed"

----------------------------------------------------------------------------
(* app.py: the handlers of POST /extract and the run_extraction threads *)

Absent == "absent"

\* A progress message: its kind, the text it carries and the count it carries
Progress(kind, msg, n) == [kind |-> kind, msg |-> msg, n |-> n]

\* The module-level extraction_status: no 'filepath' key yet
StatusAtImport ==
    [running |-> FALSE, progress |-> Progress("", "", 0), results |-> <<>>,
     error |-> None, filepath |-> Absent]

\* The dictionary bound by extract() before it starts the thread
StatusAtStart ==
    [running |-> TRUE, progress |-> Progress("Starting...", "", 0), results |-> <<>>,
     error |-> None, filepath |-> None]

\* request.json: mode 'single' with its fields, or a CSV of n data lines
SingleBody(hotel_id, hotel_name) ==
    [mode |-> "single", hotel_id |-> hotel_id, hotel_name |-> hotel_name, lines |-> 0]
CsvBody(lines) ==
    [mode |-> "csv", hotel_id |-> "", hotel_name |-> "", lines |-> lines]

Bodies == { SingleBody("H1", "Grand Hotel"), SingleBody("H1", ""), CsvBody(0), CsvBody(2) }

\* The hotels list built by extract() from the body
HotelsOf(body) ==
    IF body.mode = "single"
    THEN IF body.hotel_id = "" \/ body.hotel_name = "" THEN <<>>
         ELSE <<Hotel(body.hotel_id, body.hotel_name, "", "")>>
    ELSE HotelList(body.lines)

\* What the browser does for one hotel, for every stage of extract_hotel
HotelEnv(search, site, nav, detail, closeFails) ==
    [search |-> search, site |-> site, nav |-> nav, detail |-> detail,
     closeFails |-> closeFails]

OfficialSite == SiteOracle(FALSE, FALSE, [entry |-> HomeNoRooms, rooms |-> RoomsTwoCards])
DetailOk == DetailOracle(FALSE, FALSE, DetailKing, FALSE)

HotelEnvs ==
    { HotelEnv(SearchOracle(FALSE, FALSE, NoUrl, FALSE), OfficialSite, <<>>, DetailOk, FALSE),
      HotelEnv(SearchOracle(FALSE, FALSE, HomeUrl, FALSE), OfficialSite, <<"clicked">>,
               DetailOk, FALSE) }

\* extract_hotel from its first stage to its return
RECURSIVE RunExtractHotel(_, _, _)
RunExtractHotel(fr, hotel, env) ==
    IF fr.stage = "done" THEN fr
    ELSE RunExtractHotel(
            CASE fr.stage = "search" -> SearchStep(fr, hotel, env.search)
              [] fr.stage = "open"   -> OpenSiteStep(fr, hotel, env.site)
              [] fr.stage = "nav"    -> NavStep(fr, env.nav)
              [] fr.stage = "cards"  -> CardsStep(fr, hotel, env.closeFails)
              [] fr.stage = "room"   -> RoomStep(fr, hotel, env.detail)
              [] fr.stage = "close"  -> CloseStep(fr, hotel, env.closeFails),
            hotel, env)

ExtractHotel(hotel, env) == RunExtractHotel(EhFrame(hotel), hotel, env)

LaunchError == Exc("BrowserType.launch: Executable doesn't exist", 44)
SaveError == Exc("[Errno 13] Permission denied: 'output/hotel_rooms.csv'", 54)
CsvPath == "output/hotel_rooms_<timestamp>.csv"

\* A handler of POST /extract before its first statement
NewRequest == [pc |-> "l66", hotels |-> <<>>, response |-> None]

\* A run_extraction thread at its first statement.  all_rooms is the local of
\* process_hotels, results and filepath are the locals of run_extraction.
NewThread(hotel_list) ==
    [pc |-> "l27", hotels |-> hotel_list, idx |-> 1, all_rooms |-> <<>>, results |-> <<>>,
     filepath |-> None, exc |-> NoExc, failed |-> FALSE]

AppInit ==
    /\ extraction_status = StatusAtImport
    /\ requests = [r \in 1..MaxRequests |-> NewRequest]
    /\ threads = <<>>
    /\ polled = <<>>

AppIdle ==
    /\ extraction_status = StatusAtImport
    /\ requests = <<>>
    /\ threads = <<>>
    /\ polled = <<>>

otherThanApp == <<imVars, dtVars, cdVars, phVars, polled>>

\* extract(), line 66: the job is running, 400
ExtractRejectsRunning ==
    /\ \E r \in DOMAIN requests :
          /\ requests[r].pc = "l66"
          /\ extraction_status.running
          /\ requests' = [requests EXCEPT ![r].pc = "returned",
                                          ![r].response = "Extraction already running"]
    /\ UNCHANGED <<extraction_status, threads>>
    /\ UNCHANGED otherThanApp

\* extract(), lines 66 to 107: the job is not running; the body is read and
\* the request is refused when it yields no hotel
ExtractReadsBody ==
    /\ \E r \in DOMAIN requests, body \in Bodies :
          /\ requests[r].pc = "l66"
          /\ ~extraction_status.running
          /\ requests' =
                [requests EXCEPT ![r] =
                    IF HotelsOf(body) = <<>>
                    THEN [@ EXCEPT !.pc = "returned",
                                   !.response =
                                       IF body.mode = "single"
                                       THEN "Hotel ID and Hotel Name are required"
                                       ELSE IF body.lines = 0 THEN "CSV data is required"
                                       ELSE "No hotels to process"]
                    ELSE [@ EXCEPT !.pc = "l109", !.hotels = HotelsOf(body)]]
    /\ UNCHANGED <<extraction_status, threads>>
    /\ UNCHANGED otherThanApp

\* extract(), lines 109 to 115: a fresh dictionary is bound to the global
ExtractResetsStatus ==
    /\ \E r \in DOMAIN requests :
          /\ requests[r].pc = "l109"
          /\ requests' = [requests EXCEPT ![r].pc = "l117"]
    /\ extraction_status' = StatusAtStart
    /\ UNCHANGED threads
    /\ UNCHANGED otherThanApp

\* extract(), lines 117 to 121: the thread is started
ExtractStartsThread ==
    /\ \E r \in DOMAIN requests :
          /\ requests[r].pc = "l117"
          /\ threads' = Append(threads, NewThread(requests[r].hotels))
          /\ requests' = [requests EXCEPT ![r].pc = "returned",
                                          ![r].response = "Extraction started"]
    /\ UNCHANGED extraction_status
    /\ UNCHANGED otherThanApp

\* A statement of run_extraction that only assigns extraction_status[key]
Assigns(t, at, key, value, next) ==
    /\ threads[t].pc = at
    /\ extraction_status' = [extraction_status EXCEPT ![key] = value]
    /\ threads' = [threads EXCEPT ![t].pc = next]

\* The mutant of Caught: the except does not catch e and the thread dies.
CaughtNot(t, e) == [threads[t] EXCEPT !.pc = "dead", !.exc = e, !.failed = TRUE]

\* The except of run_extraction is entered with the exception e
Caught(t, e) == [threads[t] EXCEPT !.pc = "l52", !.exc = e, !.failed = TRUE]

\* line 27: extraction_status['running'] = True
RunL27 ==
    /\ \E t \in DOMAIN threads : Assigns(t, "l27", "running", TRUE, "l28")
    /\ UNCHANGED requests
    /\ UNCHANGED otherThanApp

\* line 28: extraction_status['progress'] = 'Initializing...'
RunL28 ==
    /\ \E t \in DOMAIN threads :
          Assigns(t, "l28", "progress", Progress("Initializing...", "", 0), "l29")
    /\ UNCHANGED requests
    /\ UNCHANGED otherThanApp

\* line 29: extraction_status['error'] = None
RunL29 ==
    /\ \E t \in DOMAIN threads : Assigns(t, "l29", "error", None, "init_browser")
    /\ UNCHANGED requests
    /\ UNCHANGED otherThanApp

\* lines 31 to 40 and process_hotels up to its try: the browser is launched,
\* or the launch raises
RunInitBrowser ==
    /\ \E t \in DOMAIN threads, launchFails \in BOOLEAN :
          /\ threads[t].pc = "init_browser"
          /\ threads' = [threads EXCEPT ![t] =
                            IF launchFails THEN Caught(t, LaunchError)
                            ELSE [@ EXCEPT !.pc = "loop"]]
    /\ UNCHANGED <<extraction_status, requests>>
    /\ UNCHANGED otherThanApp

\* One iteration of the loop of process_hotels: the progress messages of the
\* hotel, of which the last one stays, and all_rooms.extend(rooms)
RunHotel ==
    /\ \E t \in DOMAIN threads, env \in HotelEnvs :
          LET th == threads[t]
              fr == ExtractHotel(th.hotels[th.idx], env)
          IN  /\ th.pc = "loop"
              /\ th.idx <= Len(th.hotels)
              /\ extraction_status' =
                    [extraction_status EXCEPT !.progress = Progress("hotel", fr.progress, th.idx)]
              /\ threads' = [threads EXCEPT ![t].all_rooms = @ \o fr.rows,
                                            ![t].idx = @ + 1]
    /\ UNCHANGED requests
    /\ UNCHANGED otherThanApp

\* The finally of process_hotels and its return: the rows reach
\* run_extraction only if neither browser.close() nor playwright.stop() raises
RunFinally ==
    /\ \E t \in DOMAIN threads, closeFails \in BOOLEAN :
          /\ threads[t].pc = "loop"
          /\ threads[t].idx > Len(threads[t].hotels)
          /\ threads' = [threads EXCEPT ![t] =
                            IF closeFails THEN Caught(t, TargetClosed)
                            ELSE [@ EXCEPT !.pc = "l43", !.results = threads[t].all_rooms]]
    /\ UNCHANGED <<extraction_status, requests>>
    /\ UNCHANGED otherThanApp

\* line 43: extraction_status['progress'] = 'Saving results...'
RunL43 ==
    /\ \E t \in DOMAIN threads :
          Assigns(t, "l43", "progress", Progress("Saving results...", "", 0), "l44")
    /\ UNCHANGED requests
    /\ UNCHANGED otherThanApp

\* line 44: filepath = extractor.save_to_csv(results), None for no rows
RunSaveToCsv ==
    /\ \E t \in DOMAIN threads, saveFails \in BOOLEAN :
          /\ threads[t].pc = "l44"
          /\ threads' = [threads EXCEPT ![t] =
                            IF threads[t].results = <<>> THEN [@ EXCEPT !.pc = "l46"]
                            ELSE IF saveFails THEN Caught(t, SaveError)
                            ELSE [@ EXCEPT !.pc = "l46", !.filepath = CsvPath]]
    /\ UNCHANGED <<extraction_status, requests>>
    /\ UNCHANGED otherThanApp

\* line 46: extraction_status['results'] = results
RunL46 ==
    /\ \E t \in DOMAIN threads : Assigns(t, "l46", "results", threads[t].results, "l47")
    /\ UNCHANGED requests
    /\ UNCHANGED otherThanApp

\* line 47: extraction_status['progress'] = the completion message
RunL47 ==
    /\ \E t \in DOMAIN threads :
          Assigns(t, "l47", "progress",
                  Progress("Complete! Extracted n room types", "", Len(threads[t].results)),
                  "l48")
    /\ UNCHANGED requests
    /\ UNCHANGED otherThanApp

\* line 48: extraction_status['running'] = False
RunL48 ==
    /\ \E t \in DOMAIN threads : Assigns(t, "l48", "running", FALSE, "l49")
    /\ UNCHANGED requests
    /\ UNCHANGED otherThanApp

\* line 49: extraction_status['filepath'] = filepath
RunL49 ==
    /\ \E t \in DOMAIN threads : Assigns(t, "l49", "filepath", threads[t].filepath, "done")
    /\ UNCHANGED requests
    /\ UNCHANGED otherThanApp

\* line 52: extraction_status['error'] = str(e)
RunL52 ==
    /\ \E t \in DOMAIN threads : Assigns(t, "l52", "error", threads[t].exc.id, "l53")
    /\ UNCHANGED requests
    /\ UNCHANGED otherThanApp

\* line 53: extraction_status['running'] = False
RunL53 ==
    /\ \E t \in DOMAIN threads : Assigns(t, "l53", "running", FALSE, "l54")
    /\ UNCHANGED requests
    /\ UNCHANGED otherThanApp

\* line 54: extraction_status['progress'] = f'Error: {str(e)}'
RunL54 ==
    /\ \E t \in DOMAIN threads :
          Assigns(t, "l54", "progress", Progress("Error: ", threads[t].exc.id, 0), "done")
    /\ UNCHANGED requests
    /\ UNCHANGED otherThanApp

Next ==
    \/ ExtractRejectsRunning \/ ExtractReadsBody \/ ExtractResetsStatus
    \/ ExtractStartsThread
    \/ RunL27 \/ RunL28 \/ RunL29 \/ RunInitBrowser \/ RunHotel \/ RunFinally
    \/ RunL43 \/ RunSaveToCsv \/ RunL46 \/ RunL47 \/ RunL48 \/ RunL49
    \/ RunL52 \/ RunL53 \/ RunL54

\* The steps of the run_extraction threads
RunNext ==
    \/ RunL27 \/ RunL28 \/ RunL29 \/ RunInitBrowser \/ RunHotel \/ RunFinally
    \/ RunL43 \/ RunSaveToCsv \/ RunL46 \/ RunL47 \/ RunL48 \/ RunL49
    \/ RunL52 \/ RunL53 \/ RunL54

\* Every browser operation returns or times out and every thread is
\* scheduled: a started thread and a handler past its check take their next
\* step.  Nothing obliges a request to arrive.
Fairness ==
    /\ WF_vars(RunNext)
    /\ WF_vars(ExtractResetsStatus \/ ExtractStartsThread)

\* The status shows how a job ended
HasOutcome ==
    \/ extraction_status.error # None
    \/ extraction_status.progress.kind \in {"Complete! Extracted n room types", "Error: "}

Accepted(r) == requests[r].response = "Extraction started"

\* C17: every job accepted by POST /extract eventually reaches running =
\* False with a completion or an error outcome, and a request is refused as
\* "already running" only while running is True.
C17_AcceptedJobsEnd ==
    /\ \A r \in 1..MaxRequests :
          Accepted(r) ~> (~extraction_status.running /\ HasOutcome)
    /\ [][\A r \in 1..MaxRequests :
            (requests[r].pc = "l66" /\ requests'[r].pc = "returned"
                /\ requests'[r].response = "Extraction already running")
            => extraction_status.running]_vars

\* Two jobs were accepted and have ended, the first with an error and the
\* second with its results, and running is False.
C17_Witness ==
    /\ Len(threads) = 2
    /\ \A r \in 1..2 : Accepted(r)
    /\ threads[1].pc = "done" /\ threads[1].failed
    /\ threads[2].pc = "done" /\ ~threads[2].failed
    /\ ~extraction_status.running
    /\ HasOutcome

\* status(): GET /status returns the dictionary as it is
Status ==
    /\ Len(polled) < MaxPolls
    /\ polled' = Append(polled, extraction_status)
    /\ UNCHANGED appVars
    /\ UNCHANGED <<imVars, dtVars, cdVars, phVars>>

\* One request to POST /extract, the thread it starts, and a poller
StatusInit ==
    /\ extraction_status = StatusAtImport
    /\ requests = <<NewRequest>>
    /\ threads = <<>>
    /\ polled = <<>>

NextStatus ==
    \/ ExtractReadsBody \/ ExtractResetsStatus \/ ExtractStartsThread
    \/ RunNext
    \/ Status

\* The poll shows a started job as finished without an error
LooksComplete(seen) ==
    /\ seen.filepath # Absent
    /\ ~seen.running
    /\ seen.error = None

\* C18: whenever a status poll observes a job as finished successfully
\* (started, running False, error None), the results and the output path of
\* the job are in what it observes.
C18_CompleteHasResultsAndPath ==
    \A k \in 1..Len(polled) :
        LooksComplete(polled[k]) =>
            /\ polled[k].results # <<>>
            /\ polled[k].filepath # None

\* A thread is a running job from its start until it has cleared the flag.
IsActive(th) == th.pc \notin {"l49", "l54", "done"}

ActiveThreads == {t \in DOMAIN threads : IsActive(threads[t])}

\* C2: at most one extraction job is running at any time, in every
\* interleaving of the handlers of POST /extract and the threads: no second
\* thread is started while one is active.
C2_AtMostOneJob == Cardinality(ActiveThreads) <= 1

\* A handler has bound the fresh record of its job and has not yet started
\* the thread, and every earlier thread has cleared the running flag, so that
\* whatever it still writes are the final steps of an earlier job
NewJobRecordBound ==
    /\ Cardinality({r \in DOMAIN requests : requests[r].pc = "l117"}) = 1
    /\ ActiveThreads = {}

\* C19: the status record of a job carries that job's own outcome only: once
\* a new job has been started the record is reset (results empty, error None,
\* output path unset) and no write of an earlier job's thread lands in it.
C19_RecordIsOfItsJobOnly ==
    NewJobRecordBound => extraction_status = StatusAtStart

\* One job was started, has ended in the except of run_extraction, and no
\* other request has touched the status since its start
OneJobFailed ==
    /\ Len(threads) = 1
    /\ threads[1].pc = "done"
    /\ threads[1].failed
    /\ Cardinality({r \in DOMAIN requests : requests[r].pc = "l117"}) = 0

\* C6: when a job ends with a fatal failure, its error is set, the running
\* flag is cleared and the rows accumulated for the hotels processed so far
\* are in the results of the job.
C6_FatalFailureKeepsRows ==
    OneJobFailed =>
        /\ extraction_status.error # None
        /\ ~extraction_status.running
        /\ extraction_status.results = threads[1].all_rooms

----------------------------------------------------------------------------
(* Specifications *)

\* one call of capture_room_images on any page of ImgPages
InitImages == ImInit /\ DtIdle /\ CdIdle /\ PhIdle /\ AppIdle
SpecImages == InitImages /\ [][NextImages]_vars

\* one call of find_room_cards_on_page on any page of CardsPages
InitCards == CdInit /\ ImIdle /\ DtIdle /\ PhIdle /\ AppIdle
SpecCards == InitCards /\ [][NextCards]_vars

\* one call of extract_room_details on any page of DetPages
InitDetails == DtInit /\ ImIdle /\ CdIdle /\ PhIdle /\ AppIdle

\* one call of process_hotels on a batch of at most MaxHotels hotels
InitBatch == PhInit /\ ImIdle /\ DtIdle /\ CdIdle /\ AppIdle
SpecBatch == InitBatch /\ [][NextBatch]_vars

\* the server: MaxRequests requests to POST /extract and the threads they start
Init == AppInit /\ ImIdle /\ DtIdle /\ CdIdle /\ PhIdle
Spec == Init /\ [][Next]_vars

\* one job of the server and the polls of its status
InitStatus == StatusInit /\ ImIdle /\ DtIdle /\ CdIdle /\ PhIdle
SpecStatus == InitStatus /\ [][NextStatus]_vars

\* the server under fair scheduling of its threads
FairSpec == Init /\ [][Next]_vars /\ Fairness
SpecDetails == InitDetails /\ [][NextDetails]_vars

=============================================================================
